---------------------------- MODULE Spec2Model ----------------------------
(***************************************************************************)
(* A model of the rust-sctp binding layer: the raw socket handle           *)
(* (src/src/sctpsock.rs), the address marshaling helpers                   *)
(* (src/src/mio_unix.rs) and the typed facades (src/src/lib.rs).           *)
(*                                                                         *)
(* Memory is modelled as sequences of bytes (0..255).  A u16 is a number;  *)
(* a u32 is the tuple of its four bytes, most significant first, so that   *)
(* byte swaps keep their exact width.                                      *)
(***************************************************************************)
EXTENDS Integers, Sequences, FiniteSets, TLC

VARIABLES
    fdtab,      \* the OS descriptor table: descriptor -> kernel socket (0: not open)
    ksock,      \* the kernel sockets: socket -> state ("free" when no descriptor refers to it)
    rxq,        \* the kernel sockets' queues of received messages
    kpeer,      \* the kernel sockets' peers, when the peer is a socket of this host (0: a remote peer)
    reqs,       \* the sendmsg requests whose messages are queued, in order
    inst,       \* the SctpSocket instances that have come into existence
    nclose,     \* per instance: the close calls issued for the handle it holds
    last,       \* the last operation: its arguments, OS calls, result and buffer accounting
    endian,     \* byte order of the target: "little" or "big"
    apc,        \* marshaling harness: position ("start", "encoded", "decoded", "raw", "rawdone")
    aIn,        \* marshaling harness: the portable address being encoded
    cbuf,       \* marshaling harness: the binary buffer (SocketAddrCRepr / raw sockaddr)
    clen,       \* marshaling harness: the length that goes with cbuf
    dec1,       \* marshaling harness: result of SocketAddr::from_raw_ptr
    dec2,       \* marshaling harness: result of to_socket_addr
    rcvtimeo,   \* the kernel sockets' SO_RCVTIMEO, in seconds (0: none, a call blocks for ever)
    pend,       \* the accept call a thread is blocked in, and for how long it has been
    thr         \* the threads that call sendmsg at the same time: position, arguments, locals, result

addrVars == <<endian, apc, aIn, cbuf, clen, dec1, dec2>>
sockVars == <<fdtab, ksock, rxq, kpeer, reqs, inst, nclose, last>>
waitVars == <<rcvtimeo, pend>>
vars == <<sockVars, addrVars, waitVars, thr>>

---------------------------------------------------------------------------
(* Platform constants (linux)                                              *)

AF_INET == 2
AF_INET6 == 10
SizeofSockaddr == 16
SizeofSockaddrIn == 16
SizeofSockaddrIn6 == 28
SizeofSockaddrStorage == 128

Endians == {"little", "big"}

\* A byte of memory that nothing has initialised.
Uninit == -1

---------------------------------------------------------------------------
(* Results (std::io::Result)                                               *)

Ok(v) == [ok |-> TRUE, kind |-> "none", errno |-> "none", val |-> v]
Err(k) == [ok |-> FALSE, kind |-> k, errno |-> "none", val |-> <<>>]
OsErr(e) == [ok |-> FALSE, kind |-> "Os", errno |-> e, val |-> <<>>]

---------------------------------------------------------------------------
(* Integer conversions                                                     *)

Rev4(t) == <<t[4], t[3], t[2], t[1]>>
Swap16(v) == (v % 256) * 256 + (v \div 256)

\* u16::to_be / u16::from_be
U16ToBe(v) == IF endian = "little" THEN Swap16(v) ELSE v
U16FromBe(v) == IF endian = "little" THEN Swap16(v) ELSE v
\* the bytes of a u16 as they lie in memory
U16NeBytes(v) == IF endian = "little" THEN <<v % 256, v \div 256>> ELSE <<v \div 256, v % 256>>
U16FromNeBytes(b) == IF endian = "little" THEN b[1] + 256 * b[2] ELSE b[1] * 256 + b[2]
\* u32::from_ne_bytes / u32::to_ne_bytes / u32::to_be, a u32 being its bytes most significant first
U32FromNeBytes(b) == IF endian = "little" THEN Rev4(b) ELSE b
U32ToNeBytes(v) == IF endian = "little" THEN Rev4(v) ELSE v
U32ToBe(v) == IF endian = "little" THEN Rev4(v) ELSE v
\* Ipv4Addr::from(u32): the octets are the big-endian bytes of the value
Ipv4FromU32(v) == v

Fill(n, b) == [i \in 1..n |-> b]

\* The bytes mem[off .. off+n-1] (off counted from 0); a byte outside the
\* buffer reads as 0.
ReadBytes(mem, off, n) == [i \in 1..n |-> IF off + i <= Len(mem) THEN mem[off + i] ELSE 0]

---------------------------------------------------------------------------
(* Portable addresses (std::net::SocketAddr)                               *)

V4(ip, port) == [fam |-> "v4", ip |-> ip, port |-> port, flowinfo |-> <<0, 0, 0, 0>>, scope |-> <<0, 0, 0, 0>>]
V6(ip, port, flow, scope) == [fam |-> "v6", ip |-> ip, port |-> port, flowinfo |-> flow, scope |-> scope]

\* RawSocketAddr::family
family(a) == IF a.fam = "v4" THEN AF_INET ELSE AF_INET6

\* mio_unix::socket_addr with the port left in host byte order
socket_addr_HostPort(a) ==
    IF a.fam = "v4"
    THEN [mem |-> U16NeBytes(AF_INET) \o U16NeBytes(a.port) \o a.ip \o Fill(8, 0)
                  \o Fill(SizeofSockaddrIn6 - SizeofSockaddrIn, Uninit),
          len |-> SizeofSockaddrIn]
    ELSE [mem |-> U16NeBytes(AF_INET6) \o U16NeBytes(a.port) \o U32ToNeBytes(a.flowinfo)
                  \o a.ip \o U32ToNeBytes(a.scope),
          len |-> SizeofSockaddrIn6]

\* mio_unix::socket_addr: the SocketAddrCRepr union and the length of the
\* member that was written.  For IPv4 the rest of the union is not written.
socket_addr(a) ==
    IF a.fam = "v4"
    THEN [mem |-> U16NeBytes(AF_INET)
                  \o U16NeBytes(U16ToBe(a.port))
                  \o U32ToNeBytes(U32FromNeBytes(a.ip))
                  \o Fill(8, 0)
                  \o Fill(SizeofSockaddrIn6 - SizeofSockaddrIn, Uninit),
          len |-> SizeofSockaddrIn]
    ELSE [mem |-> U16NeBytes(AF_INET6)
                  \o U16NeBytes(U16ToBe(a.port))
                  \o U32ToNeBytes(a.flowinfo)
                  \o a.ip
                  \o U32ToNeBytes(a.scope),
          len |-> SizeofSockaddrIn6]

\* mio_unix::to_socket_addr
to_socket_addr(mem) ==
    LET fam == U16FromNeBytes(ReadBytes(mem, 0, 2)) IN
    IF fam = AF_INET
    THEN Ok(V4(U32ToNeBytes(U32FromNeBytes(ReadBytes(mem, 4, 4))),
               U16FromBe(U16FromNeBytes(ReadBytes(mem, 2, 2)))))
    ELSE IF fam = AF_INET6
    THEN Ok(V6(ReadBytes(mem, 8, 16),
               U16FromBe(U16FromNeBytes(ReadBytes(mem, 2, 2))),
               U32FromNeBytes(ReadBytes(mem, 4, 4)),
               U32FromNeBytes(ReadBytes(mem, 24, 4))))
    ELSE Err("InvalidInput")

\* The result of from_raw_ptr together with the number of bytes of the
\* buffer it has read.
RawRes(r, n) == [res |-> r, nread |-> n]

NoAddr == V4(<<0, 0, 0, 0>>, 0)
NoRes == RawRes(Err("none"), 0)

\* SocketAddr::from_raw_ptr without the length guard of the IPv6 arm
from_raw_ptr_NoV6Guard(mem, len) ==
    IF len < SizeofSockaddr
    THEN RawRes(Err("InvalidInput"), 0)
    ELSE LET fam == U16FromNeBytes(ReadBytes(mem, 0, 2)) IN
         IF fam = AF_INET
         THEN RawRes(Ok(V4(Ipv4FromU32(U32ToBe(U32FromNeBytes(ReadBytes(mem, 4, 4)))),
                           U16FromBe(U16FromNeBytes(ReadBytes(mem, 2, 2))))),
                     SizeofSockaddrIn)
         ELSE IF fam = AF_INET6
         THEN RawRes(Ok(V6(ReadBytes(mem, 8, 16),
                           U16FromBe(U16FromNeBytes(ReadBytes(mem, 2, 2))),
                           U32FromNeBytes(ReadBytes(mem, 4, 4)),
                           U32FromNeBytes(ReadBytes(mem, 24, 4)))),
                     SizeofSockaddrIn6)
         ELSE RawRes(Err("InvalidInput"), 2)

\* SocketAddr::from_raw_ptr
from_raw_ptr(mem, len) ==
    IF len < SizeofSockaddr
    THEN RawRes(Err("InvalidInput"), 0)
    ELSE LET fam == U16FromNeBytes(ReadBytes(mem, 0, 2)) IN
         IF fam = AF_INET
         THEN RawRes(Ok(V4(Ipv4FromU32(U32ToBe(U32FromNeBytes(ReadBytes(mem, 4, 4)))),
                           U16FromBe(U16FromNeBytes(ReadBytes(mem, 2, 2))))),
                     SizeofSockaddrIn)
         ELSE IF fam = AF_INET6 /\ len >= SizeofSockaddrIn6
         THEN RawRes(Ok(V6(ReadBytes(mem, 8, 16),
                           U16FromBe(U16FromNeBytes(ReadBytes(mem, 2, 2))),
                           U32FromNeBytes(ReadBytes(mem, 4, 4)),
                           U32FromNeBytes(ReadBytes(mem, 24, 4)))),
                     SizeofSockaddrIn6)
         ELSE RawRes(Err("InvalidInput"), 2)

---------------------------------------------------------------------------
(* The operating system: descriptors, kernel sockets, system calls         *)

\* Number of SctpSocket instances a run creates.
MaxInst == 3
\* Number of messages a kernel socket queues.
MaxQueue == 1

Insts == 1..MaxInst
Fds == 1..MaxInst
Kids == 1..MaxInst

SOCK_STREAM == "SOCK_STREAM"
SOCK_SEQPACKET == "SOCK_SEQPACKET"
EINPROGRESS == "EINPROGRESS"
\* What a system call other than close may fail with.
Errnos == {"EACCES", EINPROGRESS}
\* What close may return.
CloseOutcomes == {"ok", "EIO"}

Min(S) == CHOOSE x \in S : \A y \in S : x <= y

Call(name, fd, open, args, res) ==
    [call |-> name, fd |-> fd, open |-> open, args |-> args, res |-> res]

Log(w, c) == [w EXCEPT !.calls = Append(@, c)]

FdOpen(w, fd) == fd \in Fds /\ w.fdtab[fd] # 0
FreeFds(w) == {f \in Fds : w.fdtab[f] = 0}
FreeKids(w) == {k \in Kids : w.ksock[k] = "free"}

\* A system call on a descriptor, as the syscall! macros issue it: it fails
\* with EBADF on a descriptor that is not open, and otherwise ends as the OS
\* decides (r).  newst is the state a success leaves the kernel socket in
\* ("same": unchanged).
os_call(w, name, fd, args, r, newst) ==
    LET open == FdOpen(w, fd)
        res == IF open THEN r ELSE "EBADF"
        w1 == Log(w, Call(name, fd, open, args, res))
        st == IF res = "ok" THEN newst
              ELSE IF name = "connect" /\ res = EINPROGRESS THEN "connecting"
              ELSE "same"
    IN  [w |-> IF open /\ st # "same" THEN [w1 EXCEPT !.ksock[w.fdtab[fd]] = st] ELSE w1,
         res |-> res, val |-> 0]

\* socket(family, type, IPPROTO_SCTP): the lowest free descriptor, on a new
\* kernel socket.
os_socket(w, fam, typ, r) ==
    LET res == IF r = "ok" /\ FreeFds(w) = {} THEN "EMFILE" ELSE r
        fd == IF res = "ok" THEN Min(FreeFds(w)) ELSE 0 - 1
        w1 == Log(w, Call("socket", fd, FALSE, [family |-> fam, type |-> typ], res))
    IN  IF res = "ok"
        THEN LET k == Min(FreeKids(w)) IN
             [w |-> [w1 EXCEPT !.fdtab[fd] = k, !.ksock[k] = "unbound"], res |-> res, val |-> fd]
        ELSE [w |-> w1, res |-> res, val |-> fd]

\* close(fd): the descriptor is released whatever close returns, and the
\* kernel socket goes with its last descriptor.
os_close(w, fd, r) ==
    LET open == FdOpen(w, fd)
        res == IF open THEN r ELSE "EBADF"
        w1 == Log(w, Call("close", fd, open, <<>>, res))
    IN  IF ~open THEN w1
        ELSE LET k == w.fdtab[fd]
                 shared == \E f \in Fds : f # fd /\ w.fdtab[f] = k
             IN  [w1 EXCEPT !.fdtab[fd] = 0,
                            !.ksock[k] = IF shared THEN @ ELSE "free",
                            !.rxq[k] = IF shared THEN @ ELSE <<>>,
                            !.peer = IF shared THEN @
                                     ELSE [j \in Kids |-> IF j = k \/ @[j] = k THEN 0 ELSE @[j]]]

\* dup(fd): the lowest free descriptor, on the same kernel socket.
os_dup(w, fd, r) ==
    LET open == FdOpen(w, fd)
        res == IF ~open THEN "EBADF" ELSE IF r = "ok" /\ FreeFds(w) = {} THEN "EMFILE" ELSE r
        new == IF res = "ok" THEN Min(FreeFds(w)) ELSE 0 - 1
        w1 == Log(w, Call("dup", fd, open, <<>>, res))
    IN  [w |-> IF res = "ok" THEN [w1 EXCEPT !.fdtab[new] = w.fdtab[fd]] ELSE w1,
         res |-> res, val |-> new]

\* accept(fd, addr, len): the lowest free descriptor, on a new kernel socket
\* that is connected.
os_accept(w, fd, r) ==
    LET open == FdOpen(w, fd)
        res == IF ~open THEN "EBADF" ELSE IF r = "ok" /\ FreeFds(w) = {} THEN "EMFILE" ELSE r
        new == IF res = "ok" THEN Min(FreeFds(w)) ELSE 0 - 1
        w1 == Log(w, Call("accept", fd, open, <<>>, res))
    IN  IF res = "ok"
        THEN LET k == Min(FreeKids(w)) IN
             [w |-> [w1 EXCEPT !.fdtab[new] = k, !.ksock[k] = "connected"], res |-> res, val |-> new]
        ELSE [w |-> w1, res |-> res, val |-> new]

---------------------------------------------------------------------------
(* The raw socket handle (sctpsock.rs)                                     *)

NoInst == [st |-> "none", fd |-> 0, facade |-> "Raw", origin |-> "new", of |-> 0]
\* An instance that has been released: nothing of it is left to use.
Dropped == [st |-> "dropped", fd |-> 0, facade |-> "Raw", origin |-> "new", of |-> 0]
NoBuf == [size |-> 0, allocs |-> 0, frees |-> 0, copies |-> <<>>]

\* An argument that implements ToSocketAddrs: what its resolution ends
\* with (err) and the addresses it yields.
ArgOf(sa) == [err |-> "none", addrs |-> <<sa>>]
NoneArg == [err |-> "none", addrs |-> <<>>]

\* SocketAddr::from_addr: the resolver's error as it is, InvalidInput when
\* the resolution yields nothing, the first address otherwise.
from_addr(a) ==
    IF a.err # "none" THEN Err(a.err)
    ELSE IF a.addrs = <<>> THEN Err("InvalidInput")
    ELSE Ok(a.addrs[1])

Fd(w, i) == w.inst[i].fd
NewInstId(w) == Min({i \in Insts : w.inst[i].st = "none"})

\* SctpSocket(fd): a new instance that owns descriptor fd.
Wrap(w, fd, origin, of) ==
    [w EXCEPT !.inst[NewInstId(w)] =
        [st |-> "live", fd |-> fd, facade |-> "Raw", origin |-> origin, of |-> of]]

\* impl Drop for SctpSocket: closesocket(self.0), its result ignored.
Drop(w, i, rc) ==
    LET w1 == os_close(w, Fd(w, i), rc) IN
    [w1 EXCEPT !.inst[i] = Dropped, !.nclose[i] = @ + 1]

\* SctpSocket::new
SctpSocket_new(w, fam, typ, r) ==
    LET s == os_socket(w, fam, typ, r) IN
    IF s.res # "ok"
    THEN [w |-> s.w, ret |-> OsErr(s.res)]
    ELSE [w |-> Wrap(s.w, s.val, "new", 0), ret |-> Ok(NewInstId(s.w))]

\* What the OS is handed for an address: the first len bytes of the union.
RawArg(raw) == [addr |-> ReadBytes(raw.mem, 0, raw.len), len |-> raw.len]

\* SctpSocket::connect that reports every failure of the OS call
SctpSocket_connect_Strict(w, i, a, r) ==
    LET ra == from_addr(a) IN
    IF ~ra.ok THEN [w |-> w, ret |-> ra]
    ELSE LET c == os_call(w, "connect", Fd(w, i), RawArg(socket_addr(ra.val)), r, "connected") IN
         IF c.res # "ok" THEN [w |-> c.w, ret |-> OsErr(c.res)]
         ELSE [w |-> c.w, ret |-> Ok(<<>>)]

\* SctpSocket::connect
SctpSocket_connect(w, i, a, r) ==
    LET ra == from_addr(a) IN
    IF ~ra.ok THEN [w |-> w, ret |-> ra]
    ELSE LET c == os_call(w, "connect", Fd(w, i), RawArg(socket_addr(ra.val)), r, "connected") IN
         IF c.res # "ok" /\ c.res # EINPROGRESS THEN [w |-> c.w, ret |-> OsErr(c.res)]
         ELSE [w |-> c.w, ret |-> Ok(<<>>)]

\* SctpSocket::bind
SctpSocket_bind(w, i, a, r) ==
    LET ra == from_addr(a) IN
    IF ~ra.ok THEN [w |-> w, ret |-> ra]
    ELSE LET c == os_call(w, "bind", Fd(w, i), RawArg(socket_addr(ra.val)), r, "bound") IN
         IF c.res # "ok" THEN [w |-> c.w, ret |-> OsErr(c.res)]
         ELSE [w |-> c.w, ret |-> Ok(<<>>)]

\* SctpSocket::listen
SctpSocket_listen(w, i, backlog, r) ==
    LET c == os_call(w, "listen", Fd(w, i), [backlog |-> backlog], r, "listening") IN
    IF c.res # "ok" THEN [w |-> c.w, ret |-> OsErr(c.res)]
    ELSE [w |-> c.w, ret |-> Ok(<<>>)]

\* libc::malloc(size) for the address list: rm is "ok" or "null".
malloc(w, size, rm) ==
    IF rm = "ok" THEN [w EXCEPT !.buf = [size |-> size, allocs |-> 1, frees |-> 0, copies |-> <<>>]]
    ELSE w

\* libc::free(buf)
free(w) == [w EXCEPT !.buf.frees = @ + 1]

\* A loop that gives every address a slot of sizeof(sockaddr_in6) bytes
RECURSIVE FillFrom_Slots(_, _, _, _)
FillFrom_Slots(addresses, k, offset, copies) ==
    IF k > Len(addresses)
    THEN [ret |-> Ok(<<>>), offset |-> offset, copies |-> copies]
    ELSE LET ra == from_addr(addresses[k]) IN
         IF ~ra.ok
         THEN [ret |-> ra, offset |-> offset, copies |-> copies]
         ELSE LET raw == socket_addr(ra.val) IN
              FillFrom_Slots(addresses, k + 1, offset + SizeofSockaddrIn6,
                             Append(copies, [off |-> offset, len |-> raw.len,
                                             bytes |-> ReadBytes(raw.mem, 0, raw.len)]))

\* The loop of bindx and connectx that fills the buffer: address k is
\* resolved, encoded and copied at the running offset; a resolution that
\* fails ends the loop, and the call, with its error.
RECURSIVE FillFrom(_, _, _, _)
FillFrom(addresses, k, offset, copies) ==
    IF k > Len(addresses)
    THEN [ret |-> Ok(<<>>), offset |-> offset, copies |-> copies]
    ELSE LET ra == from_addr(addresses[k]) IN
         IF ~ra.ok
         THEN [ret |-> ra, offset |-> offset, copies |-> copies]
         ELSE LET raw == socket_addr(ra.val) IN
              FillFrom(addresses, k + 1, offset + raw.len,
                       Append(copies, [off |-> offset, len |-> raw.len,
                                       bytes |-> ReadBytes(raw.mem, 0, raw.len)]))

\* SctpSocket::connectx
SctpSocket_connectx(w, i, addresses, rm, r) ==
    IF Len(addresses) = 0 THEN [w |-> w, ret |-> Err("InvalidInput")]
    ELSE IF rm # "ok" THEN [w |-> w, ret |-> Err("Other")]
    ELSE LET w1 == malloc(w, Len(addresses) * SizeofSockaddrStorage, rm)
             f == FillFrom(addresses, 1, 0, <<>>)
             w2 == [w1 EXCEPT !.buf.copies = f.copies]
         IN  IF ~f.ret.ok THEN [w |-> w2, ret |-> f.ret]
             ELSE LET c == os_call(w2, "sctp_connectx", Fd(w, i),
                                   [count |-> Len(addresses), copies |-> f.copies], r, "connected")
                  IN  IF c.res # "ok"
                      THEN [w |-> free(c.w), ret |-> OsErr(c.res)]
                      ELSE [w |-> free(c.w), ret |-> Ok("assoc")]

\* SctpSocket::bindx without the check of the empty list
SctpSocket_bindx_NoEmptyCheck(w, i, addresses, op, rm, r) ==
    IF rm # "ok" THEN [w |-> w, ret |-> Err("Other")]
    ELSE LET w1 == malloc(w, Len(addresses) * SizeofSockaddrIn6, rm)
             f == FillFrom(addresses, 1, 0, <<>>)
             w2 == [w1 EXCEPT !.buf.copies = f.copies]
         IN  IF ~f.ret.ok THEN [w |-> w2, ret |-> f.ret]
             ELSE LET c == os_call(w2, "sctp_bindx", Fd(w, i),
                                   [count |-> Len(addresses), copies |-> f.copies, flags |-> op],
                                   r, "bound")
                  IN  IF c.res # "ok"
                      THEN [w |-> free(c.w), ret |-> OsErr(c.res)]
                      ELSE [w |-> c.w, ret |-> Ok(<<>>)]

\* SctpSocket::bindx with a buffer of sizeof(sockaddr_in) bytes per address
SctpSocket_bindx_SmallBuffer(w, i, addresses, op, rm, r) ==
    IF Len(addresses) = 0 THEN [w |-> w, ret |-> Err("InvalidInput")]
    ELSE IF rm # "ok" THEN [w |-> w, ret |-> Err("Other")]
    ELSE LET w1 == malloc(w, Len(addresses) * SizeofSockaddrIn, rm)
             f == FillFrom(addresses, 1, 0, <<>>)
             w2 == [w1 EXCEPT !.buf.copies = f.copies]
         IN  IF ~f.ret.ok THEN [w |-> w2, ret |-> f.ret]
             ELSE LET c == os_call(w2, "sctp_bindx", Fd(w, i),
                                   [count |-> Len(addresses), copies |-> f.copies, flags |-> op],
                                   r, "bound")
                  IN  IF c.res # "ok"
                      THEN [w |-> free(c.w), ret |-> OsErr(c.res)]
                      ELSE [w |-> c.w, ret |-> Ok(<<>>)]

\* SctpSocket::bindx
SctpSocket_bindx(w, i, addresses, op, rm, r) ==
    IF Len(addresses) = 0 THEN [w |-> w, ret |-> Err("InvalidInput")]
    ELSE IF rm # "ok" THEN [w |-> w, ret |-> Err("Other")]
    ELSE LET w1 == malloc(w, Len(addresses) * SizeofSockaddrIn6, rm)
             f == FillFrom(addresses, 1, 0, <<>>)
             w2 == [w1 EXCEPT !.buf.copies = f.copies]
         IN  IF ~f.ret.ok THEN [w |-> w2, ret |-> f.ret]
             ELSE LET c == os_call(w2, "sctp_bindx", Fd(w, i),
                                   [count |-> Len(addresses), copies |-> f.copies, flags |-> op],
                                   r, "bound")
                  IN  IF c.res # "ok"
                      THEN [w |-> free(c.w), ret |-> OsErr(c.res)]
                      ELSE [w |-> c.w, ret |-> Ok(<<>>)]

\* What the OS leaves in the sockaddr_storage it was handed for a peer
\* address: the encoding of the peer's address, or nothing a decoder
\* accepts (NoPeer: the storage holds no IPv4 or IPv6 family tag).
NoPeer == [fam |-> "none", ip |-> <<>>, port |-> 0, flowinfo |-> <<0, 0, 0, 0>>, scope |-> <<0, 0, 0, 0>>]
PeerStorage(peer) ==
    IF peer.fam = "none" THEN Fill(SizeofSockaddrStorage, 0)
    ELSE ReadBytes(socket_addr(peer).mem, 0, socket_addr(peer).len)

\* An accept that wraps the listener's descriptor
SctpSocket_accept_ListenerFd(w, i, r, peer, rc) ==
    LET a == os_accept(w, Fd(w, i), r) IN
    IF a.res # "ok" THEN [w |-> a.w, ret |-> OsErr(a.res)]
    ELSE LET new == NewInstId(a.w)
             w1 == Wrap(a.w, Fd(w, i), "accept", i)
             addr == to_socket_addr(PeerStorage(peer))
         IN  IF ~addr.ok THEN [w |-> Drop(w1, new, rc), ret |-> addr]
             ELSE [w |-> w1, ret |-> Ok(<<new, addr.val>>)]

\* SctpSocket::accept
SctpSocket_accept(w, i, r, peer, rc) ==
    LET a == os_accept(w, Fd(w, i), r) IN
    IF a.res # "ok" THEN [w |-> a.w, ret |-> OsErr(a.res)]
    ELSE LET new == NewInstId(a.w)
             w1 == Wrap(a.w, a.val, "accept", i)
             addr == to_socket_addr(PeerStorage(peer))
         IN  IF ~addr.ok THEN [w |-> Drop(w1, new, rc), ret |-> addr]
             ELSE [w |-> w1, ret |-> Ok(<<new, addr.val>>)]

\* A try_clone that wraps the descriptor it was given
SctpSocket_try_clone_SameFd(w, i, r) ==
    [w |-> Wrap(w, Fd(w, i), "clone", i), ret |-> Ok(NewInstId(w))]

\* SctpSocket::try_clone
SctpSocket_try_clone(w, i, r) ==
    LET d == os_dup(w, Fd(w, i), r) IN
    IF d.res # "ok" THEN [w |-> d.w, ret |-> OsErr(d.res)]
    ELSE [w |-> Wrap(d.w, d.val, "clone", i), ret |-> Ok(NewInstId(d.w))]

\* A shutdown that also releases the descriptor
SctpSocket_shutdown_Closes(w, i, how, r) ==
    LET c == os_call(w, "shutdown", Fd(w, i), [how |-> how], r, "same") IN
    IF c.res # "ok" THEN [w |-> c.w, ret |-> OsErr(c.res)]
    ELSE [w |-> [os_close(c.w, Fd(w, i), "ok") EXCEPT !.nclose[i] = @ + 1], ret |-> Ok(<<>>)]

\* SctpSocket::shutdown
SctpSocket_shutdown(w, i, how, r) ==
    LET c == os_call(w, "shutdown", Fd(w, i), [how |-> how], r, "same") IN
    IF c.res # "ok" THEN [w |-> c.w, ret |-> OsErr(c.res)]
    ELSE [w |-> c.w, ret |-> Ok(<<>>)]

\* SctpSocket::setsockopt
SctpSocket_setsockopt(w, i, opt, r) ==
    LET c == os_call(w, "setsockopt", Fd(w, i), [opt |-> opt], r, "same") IN
    IF c.res # "ok" THEN [w |-> c.w, ret |-> OsErr(c.res)]
    ELSE [w |-> c.w, ret |-> Ok(<<>>)]

\* SctpSocket::getsockopt
SctpSocket_getsockopt(w, i, opt, r) ==
    LET c == os_call(w, "getsockopt", Fd(w, i), [opt |-> opt], r, "same") IN
    IF c.res # "ok" THEN [w |-> c.w, ret |-> OsErr(c.res)]
    ELSE [w |-> c.w, ret |-> Ok("optval")]

\* The list sctp_getladdrs / sctp_getpaddrs hands over: its records, each
\* as long as its family says, one after the other.
RECURSIVE Packed(_)
Packed(recs) == IF recs = <<>> THEN <<>> ELSE Head(recs) \o Packed(Tail(recs))

\* The n bytes at byte position pos of the OS's list.  A byte beyond the
\* list is whatever lies there (junk.bytes), unless the read faults.
MemRead(mem, junk, pos, n) ==
    [j \in 1..n |-> IF pos + j <= Len(mem) THEN mem[pos + j] ELSE junk.bytes[j]]
Beyond(mem, pos, n) == pos + n > Len(mem)

\* The loop of SctpSocket::addrs: record k is read at addrs.offset(offset),
\* which counts in units of sockaddr, offset being the sum of the lengths
\* of the records read so far.  An unsupported family frees the list and
\* ends the call; a decoding that fails ends it without freeing; a read
\* of unmapped memory ends the process ("Fault").
RECURSIVE AddrsLoop(_, _, _, _, _, _)
AddrsLoop(mem, junk, n, k, offset, vec) ==
    IF k > n THEN [ret |-> Ok(vec), freed |-> FALSE]
    ELSE LET pos == offset * SizeofSockaddr
             fam == U16FromNeBytes(MemRead(mem, junk, pos, 2))
             len == IF fam = AF_INET THEN SizeofSockaddrIn ELSE SizeofSockaddrIn6
         IN  IF Beyond(mem, pos, 2) /\ junk.fault THEN [ret |-> Err("Fault"), freed |-> FALSE]
             ELSE IF fam # AF_INET /\ fam # AF_INET6 THEN [ret |-> Err("Other"), freed |-> TRUE]
             ELSE IF Beyond(mem, pos, len) /\ junk.fault THEN [ret |-> Err("Fault"), freed |-> FALSE]
             ELSE LET a == from_raw_ptr(MemRead(mem, junk, pos, len), len).res IN
                  IF ~a.ok THEN [ret |-> a, freed |-> FALSE]
                  ELSE AddrsLoop(mem, junk, n, k + 1, offset + len, Append(vec, a.val))

\* SctpAddrType::get and SctpAddrType::free
GetCall(what) == IF what = "Local" THEN "sctp_getladdrs" ELSE "sctp_getpaddrs"
FreeCall(what) == IF what = "Local" THEN "sctp_freeladdrs" ELSE "sctp_freepaddrs"

\* SctpSocket::addrs (local_addrs, peer_addrs): the OS fails (len < 0),
\* reports no address (len = 0) or hands over recs.
SctpSocket_addrs(w, i, what, r, recs, junk) ==
    LET g == os_call(w, GetCall(what), Fd(w, i), [id |-> 0, list |-> recs], r, "same") IN
    IF g.res # "ok" THEN [w |-> g.w, ret |-> Err("Other")]
    ELSE IF Len(recs) = 0 THEN [w |-> g.w, ret |-> Err("AddrNotAvailable")]
    ELSE LET l == AddrsLoop(Packed(recs), junk, Len(recs), 1, 0, <<>>)
             wf == Log(g.w, Call(FreeCall(what), Fd(w, i), TRUE, [list |-> recs], "ok"))
         IN  IF l.ret.ok \/ l.freed THEN [w |-> wf, ret |-> l.ret]
             ELSE [w |-> g.w, ret |-> l.ret]

---------------------------------------------------------------------------
(* Messages (sctpsock.rs)                                                  *)

\* Option<A>
None == [some |-> FALSE, arg |-> NoneArg]
Some(a) == [some |-> TRUE, arg |-> a]

\* u16 as u32
U32OfU16(v) == <<0, 0, v \div 256, v % 256>>

Take(s, n) == [j \in 1..(IF n < Len(s) THEN n ELSE Len(s)) |-> s[j]]

\* sctp_sendmsg / send: one message, whole, to the peer's queue when the
\* peer is a socket of this host; EAGAIN when that queue is full.
os_send(w, name, fd, args, r) ==
    LET open == FdOpen(w, fd)
        k == IF open THEN w.fdtab[fd] ELSE 0
        p == IF open THEN w.peer[k] ELSE 0
        full == p # 0 /\ Len(w.rxq[p]) >= MaxQueue
        res == IF ~open THEN "EBADF" ELSE IF r = "ok" /\ full THEN "EAGAIN" ELSE r
        w1 == Log(w, Call(name, fd, open, args, res))
    IN  [w |-> IF res = "ok" /\ p # 0
               THEN [w1 EXCEPT !.rxq[p] = Append(@, [stream |-> args.stream, bytes |-> args.msg])]
               ELSE w1,
         res |-> res, val |-> Len(args.msg)]

\* sctp_recvmsg / recv with a buffer of len bytes: the first message of the
\* queue, or, from a remote peer, the message ext; the bytes that fit are
\* written to the buffer and the rest of the message is dropped.  EAGAIN
\* when the peer is a socket of this host and has sent nothing.
os_recv(w, name, fd, len, r, ext, from) ==
    LET open == FdOpen(w, fd)
        k == IF open THEN w.fdtab[fd] ELSE 0
        queued == open /\ w.rxq[k] # <<>>
        starved == open /\ ~queued /\ w.peer[k] # 0
        res == IF ~open THEN "EBADF" ELSE IF r = "ok" /\ starved THEN "EAGAIN" ELSE r
        m == IF queued THEN Head(w.rxq[k]) ELSE ext
        out == IF res = "ok"
               THEN [data |-> Take(m.bytes, len), stream |-> m.stream, from |-> PeerStorage(from)]
               ELSE [data |-> <<>>, stream |-> 0, from |-> PeerStorage(from)]
        w1 == Log(w, Call(name, fd, open, [len |-> len, out |-> out, msg |-> m], res))
    IN  [w |-> IF res = "ok" /\ queued THEN [w1 EXCEPT !.rxq[k] = Tail(@)] ELSE w1,
         res |-> res, val |-> Len(out.data), out |-> out]

\* SctpSocket::recv
SctpSocket_recv(w, i, buflen, r, ext) ==
    LET c == os_recv(w, "recv", Fd(w, i), buflen, r, ext, NoPeer) IN
    IF c.res # "ok" THEN [w |-> c.w, ret |-> OsErr(c.res)]
    ELSE [w |-> c.w, ret |-> Ok(c.val)]

\* SctpSocket::send
SctpSocket_send(w, i, buf, r) ==
    LET c == os_send(w, "send", Fd(w, i), [msg |-> buf, stream |-> 0], r) IN
    IF c.res # "ok" THEN [w |-> c.w, ret |-> OsErr(c.res)]
    ELSE [w |-> c.w, ret |-> Ok(c.val)]

\* SctpSocket::recvmsg
SctpSocket_recvmsg(w, i, buflen, r, ext, from) ==
    LET c == os_recv(w, "sctp_recvmsg", Fd(w, i), buflen, r, ext, from) IN
    IF c.res # "ok" THEN [w |-> c.w, ret |-> OsErr(c.res)]
    ELSE LET addr == to_socket_addr(c.out.from) IN
         IF ~addr.ok THEN [w |-> c.w, ret |-> addr]
         ELSE [w |-> c.w, ret |-> Ok(<<c.val, c.out.stream, addr.val>>)]

\* SctpSocket::sendmsg, up to its call of sctp_sendmsg: the address, when
\* one is given, resolved and encoded, and the ppid in network byte order.
sendmsg_locals(address, ppid) ==
    LET ra == IF address.some THEN from_addr(address.arg) ELSE Ok(<<>>) IN
    IF ~ra.ok THEN ra
    ELSE Ok([to |-> IF address.some THEN RawArg(socket_addr(ra.val))
                    ELSE [addr |-> <<>>, len |-> 0],
             ppid |-> U32ToBe(ppid)])

\* A sendmsg that hands the OS the first byte and the rest of the payload
\* in two calls
sendmsg_call_Split(w, i, msg, loc, stream, ttl, r) ==
    LET c1 == os_send(w, "sctp_sendmsg", Fd(w, i),
                      [msg |-> Take(msg, 1), len |-> 1, to |-> loc.to.addr, tolen |-> loc.to.len,
                       ppid |-> loc.ppid, flags |-> 0, stream |-> stream,
                       ttl |-> ttl, context |-> 0], r)
        c2 == os_send(c1.w, "sctp_sendmsg", Fd(w, i),
                      [msg |-> Tail(msg), len |-> Len(msg) - 1, to |-> loc.to.addr, tolen |-> loc.to.len,
                       ppid |-> loc.ppid, flags |-> 0, stream |-> stream,
                       ttl |-> ttl, context |-> 0], r)
    IN  IF c1.res # "ok" THEN [w |-> c1.w, ret |-> OsErr(c1.res)]
        ELSE IF c2.res # "ok" THEN [w |-> c2.w, ret |-> OsErr(c2.res)]
        ELSE [w |-> c2.w, ret |-> Ok(c1.val + c2.val)]

\* SctpSocket::sendmsg, the call of sctp_sendmsg and its result
sendmsg_call(w, i, msg, loc, stream, ttl, r) ==
    LET c == os_send(w, "sctp_sendmsg", Fd(w, i),
                     [msg |-> msg, len |-> Len(msg), to |-> loc.to.addr, tolen |-> loc.to.len,
                      ppid |-> loc.ppid, flags |-> 0, stream |-> stream,
                      ttl |-> ttl, context |-> 0], r)
    IN  IF c.res # "ok" THEN [w |-> c.w, ret |-> OsErr(c.res)]
        ELSE [w |-> c.w, ret |-> Ok(c.val)]

\* SctpSocket::sendmsg(msg, address, ppid, stream, ttl)
SctpSocket_sendmsg(w, i, msg, address, ppid, stream, ttl, r) ==
    LET loc == sendmsg_locals(address, ppid) IN
    IF ~loc.ok THEN [w |-> w, ret |-> loc]
    ELSE sendmsg_call(w, i, msg, loc.val, stream, ttl, r)

---------------------------------------------------------------------------
(* The typed facades (lib.rs)                                              *)

SetFacade(w, i, f) == [w EXCEPT !.inst[i].facade = f]

\* An early return that lets the socket escape its release
TryWithSock_Leak(step, i, rc) == step

\* try!(sock.op(..)) in a constructor that owns sock: an error returns at
\* once, and sock, going out of scope, is dropped.
TryWithSock(step, i, rc) ==
    IF step.ret.ok THEN step
    ELSE [w |-> Drop(step.w, i, rc), ret |-> step.ret]

\* The address loop with the family taken from the address just seen
RECURSIVE ScanFrom_LastWins(_, _, _, _)
ScanFrom_LastWins(addresses, k, vec, fam) ==
    IF k > Len(addresses) THEN [ret |-> Ok(vec), family |-> fam]
    ELSE LET a == from_addr(addresses[k]) IN
         IF ~a.ok THEN [ret |-> a, family |-> fam]
         ELSE ScanFrom_LastWins(addresses, k + 1, Append(vec, a.val), family(a.val))

\* The address loop of connectx and bindx: every address is resolved, and
\* the family becomes AF_INET6 as soon as one address is IPv6.
RECURSIVE ScanFrom(_, _, _, _)
ScanFrom(addresses, k, vec, fam) ==
    IF k > Len(addresses) THEN [ret |-> Ok(vec), family |-> fam]
    ELSE LET a == from_addr(addresses[k]) IN
         IF ~a.ok THEN [ret |-> a, family |-> fam]
         ELSE ScanFrom(addresses, k + 1, Append(vec, a.val),
                       IF family(a.val) = AF_INET6 THEN AF_INET6 ELSE fam)

ArgsOf(vec) == [j \in 1..Len(vec) |-> ArgOf(vec[j])]

\* The outcome of each OS call of a constructor: the call o.failAt fails
\* with o.errno, the calls before it succeed, and close ends with o.close.
Res(o, step) == IF o.failAt = step THEN o.errno ELSE "ok"
Mem(o) == IF o.failAt = "malloc" THEN "null" ELSE "ok"

\* SctpStream::connect
SctpStream_connect(w, address, o) ==
    LET raw_addr == from_addr(address) IN
    IF ~raw_addr.ok THEN [w |-> w, ret |-> raw_addr]
    ELSE LET n == SctpSocket_new(w, family(raw_addr.val), SOCK_STREAM, Res(o, "socket")) IN
         IF ~n.ret.ok THEN n
         ELSE LET sock == n.ret.val
                  c == TryWithSock(SctpSocket_connect(n.w, sock, ArgOf(raw_addr.val), Res(o, "connect")),
                                   sock, o.close)
              IN  IF ~c.ret.ok THEN c
                  ELSE [w |-> SetFacade(c.w, sock, "Stream"), ret |-> Ok(sock)]

\* SctpStream::connectx
SctpStream_connectx(w, addresses, o) ==
    IF Len(addresses) = 0 THEN [w |-> w, ret |-> Err("InvalidInput")]
    ELSE LET scan == ScanFrom(addresses, 1, <<>>, AF_INET) IN
         IF ~scan.ret.ok THEN [w |-> w, ret |-> scan.ret]
         ELSE LET n == SctpSocket_new(w, scan.family, SOCK_STREAM, Res(o, "socket")) IN
              IF ~n.ret.ok THEN n
              ELSE LET sock == n.ret.val
                       c == TryWithSock(SctpSocket_connectx(n.w, sock, ArgsOf(scan.ret.val), Mem(o),
                                                            Res(o, "sctp_connectx")),
                                        sock, o.close)
                   IN  IF ~c.ret.ok THEN c
                       ELSE [w |-> SetFacade(c.w, sock, "Stream"), ret |-> Ok(sock)]

\* A tail of the bind constructors that wraps the bound socket without listen
ListenAndWrap_NoListen(b, sock, facade, o) ==
    IF ~b.ret.ok THEN b
    ELSE [w |-> SetFacade(b.w, sock, facade), ret |-> Ok(sock)]

\* The tail of the bind constructors: try!(sock.listen(-1)), then the facade.
ListenAndWrap(b, sock, facade, o) ==
    IF ~b.ret.ok THEN b
    ELSE LET l == TryWithSock(SctpSocket_listen(b.w, sock, 0 - 1, Res(o, "listen")), sock, o.close) IN
         IF ~l.ret.ok THEN l
         ELSE [w |-> SetFacade(l.w, sock, facade), ret |-> Ok(sock)]

\* The bind constructors, which differ in the socket type and the facade.
BindFacade(w, address, typ, facade, o) ==
    LET raw_addr == from_addr(address) IN
    IF ~raw_addr.ok THEN [w |-> w, ret |-> raw_addr]
    ELSE LET n == SctpSocket_new(w, family(raw_addr.val), typ, Res(o, "socket")) IN
         IF ~n.ret.ok THEN n
         ELSE LET sock == n.ret.val
                  b == TryWithSock(SctpSocket_bind(n.w, sock, ArgOf(raw_addr.val), Res(o, "bind")),
                                   sock, o.close)
              IN  ListenAndWrap(b, sock, facade, o)

\* The bindx constructors, which differ in the socket type and the facade.
BindxFacade(w, addresses, typ, facade, o) ==
    IF Len(addresses) = 0 THEN [w |-> w, ret |-> Err("InvalidInput")]
    ELSE LET scan == ScanFrom(addresses, 1, <<>>, AF_INET) IN
         IF ~scan.ret.ok THEN [w |-> w, ret |-> scan.ret]
         ELSE LET n == SctpSocket_new(w, scan.family, typ, Res(o, "socket")) IN
              IF ~n.ret.ok THEN n
              ELSE LET sock == n.ret.val
                       b == TryWithSock(SctpSocket_bindx(n.w, sock, ArgsOf(scan.ret.val), "AddAddr",
                                                         Mem(o), Res(o, "sctp_bindx")),
                                        sock, o.close)
                   IN  ListenAndWrap(b, sock, facade, o)

\* SctpEndpoint::bind
SctpEndpoint_bind(w, address, o) == BindFacade(w, address, SOCK_SEQPACKET, "Endpoint", o)
\* SctpEndpoint::bindx
SctpEndpoint_bindx(w, addresses, o) == BindxFacade(w, addresses, SOCK_SEQPACKET, "Endpoint", o)
\* SctpListener::bind
SctpListener_bind(w, address, o) == BindFacade(w, address, SOCK_STREAM, "Listener", o)
\* SctpListener::bindx
SctpListener_bindx(w, addresses, o) == BindxFacade(w, addresses, SOCK_STREAM, "Listener", o)

\* SctpListener::accept
SctpListener_accept(w, i, r, from, rc) ==
    LET a == SctpSocket_accept(w, i, r, from, rc) IN
    IF ~a.ret.ok THEN a
    ELSE [w |-> SetFacade(a.w, a.ret.val[1], "Stream"), ret |-> a.ret]

\* Option<Result<SctpStream>>
SomeItem(r) == [some |-> TRUE, item |-> r]
NoItem == [some |-> FALSE, item |-> Err("none")]

\* An iterator that ends at the first error
Incoming_next_EndsOnError(w, i, r, from, rc) ==
    LET a == SctpListener_accept(w, i, r, from, rc) IN
    IF a.ret.ok THEN [w |-> a.w, ret |-> SomeItem(Ok(a.ret.val[1]))]
    ELSE [w |-> a.w, ret |-> NoItem]

\* Incoming::next: one accept on the listener, its stream or its error.
Incoming_next(w, i, r, from, rc) ==
    LET a == SctpListener_accept(w, i, r, from, rc) IN
    IF a.ret.ok THEN [w |-> a.w, ret |-> SomeItem(Ok(a.ret.val[1]))]
    ELSE [w |-> a.w, ret |-> SomeItem(a.ret)]

\* The argument that a call leaves out.
NotGiven == "not given"

\* SctpStream::sendmsg: self.0.sendmsg(msg, None, stream, 0), its arguments
\* bound, in their order, to (msg, address, ppid, stream, ttl).
SctpStream_sendmsg(w, i, msg, stream, r) ==
    SctpSocket_sendmsg(w, i, msg, None, U32OfU16(stream), 0, NotGiven, r)

\* A send_to that leaves the destination out
SctpEndpoint_send_to_NoAddress(w, i, msg, address, stream, r) ==
    SctpSocket_sendmsg(w, i, msg, None, U32OfU16(stream), 0, NotGiven, r)

\* SctpEndpoint::send_to: self.0.sendmsg(msg, Some(address), stream, 0),
\* its arguments bound, in their order, to (msg, address, ppid, stream, ttl).
SctpEndpoint_send_to(w, i, msg, address, stream, r) ==
    SctpSocket_sendmsg(w, i, msg, Some(address), U32OfU16(stream), 0, NotGiven, r)

\* SctpStream::recvmsg
SctpStream_recvmsg(w, i, buflen, r, ext, from) ==
    LET m == SctpSocket_recvmsg(w, i, buflen, r, ext, from) IN
    IF ~m.ret.ok THEN m
    ELSE [w |-> m.w, ret |-> Ok(<<m.ret.val[1], m.ret.val[2]>>)]

\* SctpEndpoint::recv_from
SctpEndpoint_recv_from(w, i, buflen, r, ext, from) == SctpSocket_recvmsg(w, i, buflen, r, ext, from)

\* SctpStream::try_clone, SctpEndpoint::try_clone, SctpListener::try_clone:
\* the clone is a facade of the same type.
Facade_try_clone(w, i, r) ==
    LET c == SctpSocket_try_clone(w, i, r) IN
    IF ~c.ret.ok THEN c
    ELSE [w |-> SetFacade(c.w, c.ret.val, w.inst[i].facade), ret |-> c.ret]

---------------------------------------------------------------------------
(* The socket life cycle: state, inputs and actions                        *)

\* Longest address list handed to bindx and connectx.
MaxAddrs == 2

Outcomes == {"ok"} \cup Errnos

Loopback4 == V4(<<127, 0, 0, 1>>, 3868)
Loopback6 == V6([j \in 1..16 |-> IF j = 16 THEN 1 ELSE 0], 3868, <<0, 0, 0, 0>>, <<0, 0, 0, 0>>)
\* "127.0.0.1:3868", "[::1]:3868", an argument that resolves to nothing and
\* a host name whose lookup fails.
ArgV4 == ArgOf(Loopback4)
ArgV6 == ArgOf(Loopback6)
ArgLookupErr == [err |-> "Uncategorized", addrs |-> <<>>]
AddrArgs == {ArgV4, ArgV6, NoneArg, ArgLookupErr}
\* An argument that resolves to two addresses.
ArgTwo == [err |-> "none", addrs |-> <<Loopback6, Loopback4>>]
AddrLists == UNION {[1..n -> AddrArgs] : n \in 0..MaxAddrs}

PeerAddrs == {Loopback4, Loopback6, NoPeer}
ExtMsg == [stream |-> 6, bytes |-> <<104, 105, 33>>]
NoReq == [msg |-> <<>>, stream |-> 0, some |-> FALSE]
Req(msg, stream) == [msg |-> msg, stream |-> stream, some |-> TRUE]

\* Longest address list the OS reports.
MaxOsAddrs == 2

\* The records the OS reports: 127.0.0.1:3868, [::1]:3868, 10.0.2.15:3868
\* and a record of family AF_UNIX (1).
Rec(sa) == ReadBytes(socket_addr(sa).mem, 0, socket_addr(sa).len)
RecUnix == [j \in 1..SizeofSockaddr |-> IF j <= 2 THEN U16NeBytes(1)[j] ELSE 0]
OsRecords == {Rec(Loopback4), Rec(Loopback6), Rec(V4(<<10, 0, 2, 15>>, 3868)), RecUnix}
OsAddrLists == UNION {[1..n -> OsRecords] : n \in 0..MaxOsAddrs}
\* What a read beyond the OS's list finds: zeroes, the bytes of an IPv4 or
\* of an IPv6 record, or no mapped memory.
Junks == {[fault |-> FALSE, bytes |-> Fill(SizeofSockaddrIn6, 0)],
          [fault |-> FALSE, bytes |-> ReadBytes(Rec(Loopback4), 0, SizeofSockaddrIn6)],
          [fault |-> FALSE, bytes |-> Rec(Loopback6)],
          [fault |-> TRUE, bytes |-> Fill(SizeofSockaddrIn6, 0)]}

Oracles(steps) == [failAt : steps \cup {"none"}, errno : Errnos, close : CloseOutcomes]

NoLast == [op |-> "none", inst |-> 0, args |-> <<>>, ret |-> Ok(<<>>), calls |-> <<>>,
           buf |-> NoBuf, req |-> NoReq]

\* No thread is blocked in a call.
NoPend == [inst |-> 0, waited |-> 0]

\* The threads of the concurrent calls.
Threads == {1, 2}
NoThread == [pc |-> "idle", h |-> 0, msg |-> <<>>, address |-> [some |-> FALSE, arg |-> NoneArg],
             stream |-> 0, loc |-> <<>>, ret |-> Err("none")]

IdleWait ==
    /\ rcvtimeo = [k \in Kids |-> 0]
    /\ pend = NoPend
    /\ thr = [t \in Threads |-> NoThread]

InitSock ==
    /\ IdleWait
    /\ fdtab = [f \in Fds |-> 0]
    /\ ksock = [k \in Kids |-> "free"]
    /\ rxq = [k \in Kids |-> <<>>]
    /\ kpeer = [k \in Kids |-> 0]
    /\ reqs = [k \in Kids |-> <<>>]
    /\ inst = [i \in Insts |-> NoInst]
    /\ nclose = [i \in Insts |-> 0]
    /\ last = NoLast

IdleAddr ==
    /\ apc = "idle"
    /\ aIn = NoAddr
    /\ cbuf = <<>>
    /\ clen = 0
    /\ dec1 = NoRes
    /\ dec2 = Err("none")

Init == InitSock /\ IdleAddr /\ endian = "little"

\* The world an operation starts in.
CurW == [fdtab |-> fdtab, ksock |-> ksock, rxq |-> rxq, peer |-> kpeer, inst |-> inst,
         nclose |-> nclose, calls |-> <<>>, buf |-> NoBuf]

Live(i) == inst[i].st = "live"
CanCreate == \E i \in Insts : inst[i].st = "none"

\* The requests that go with the queued messages, after an operation that
\* left the queues as in w: one more for a queue that grew, the oldest
\* ones gone from a queue that shrank.
SyncReqs(w, req) ==
    [k \in Kids |->
        LET n == Len(w.rxq[k]) m == Len(reqs[k]) IN
        IF n > m THEN Append(reqs[k], req)
        ELSE [j \in 1..n |-> reqs[k][j + (m - n)]]]

\* The request whose message the operation on instance i took from its queue.
TakenReq(w, i) ==
    IF i \in Insts /\ inst[i].fd \in Fds /\ fdtab[inst[i].fd] # 0
    THEN LET k == fdtab[inst[i].fd] IN
         IF Len(w.rxq[k]) < Len(rxq[k]) /\ reqs[k] # <<>> THEN Head(reqs[k]) ELSE NoReq
    ELSE NoReq

\* The state after an operation: the world it left, and its record.
CommitSock(out, op, i, args, req) ==
    /\ fdtab' = out.w.fdtab
    /\ ksock' = out.w.ksock
    /\ rxq' = out.w.rxq
    /\ kpeer' = out.w.peer
    /\ inst' = out.w.inst
    /\ nclose' = out.w.nclose
    /\ reqs' = SyncReqs(out.w, req)
    /\ last' = [op |-> op, inst |-> i, args |-> args, ret |-> out.ret, calls |-> out.w.calls,
                buf |-> out.w.buf, req |-> IF req.some THEN req ELSE TakenReq(out.w, i)]
    /\ UNCHANGED addrVars

\* An operation that does not block: it ends as it was called.
Commit(out, op, i, args, req) ==
    /\ pend = NoPend
    /\ CommitSock(out, op, i, args, req)
    /\ UNCHANGED <<waitVars, thr>>

IsRaw(i) == Live(i) /\ inst[i].facade = "Raw"
Is(i, f) == Live(i) /\ inst[i].facade = f

RawNew(fam, typ, r) ==
    /\ CanCreate
    /\ Commit(SctpSocket_new(CurW, fam, typ, r), "new", 0, [family |-> fam, type |-> typ], NoReq)

Connect(i, a, r) ==
    /\ IsRaw(i)
    /\ Commit(SctpSocket_connect(CurW, i, a, r), "connect", i, [address |-> a], NoReq)

Connectx(i, as, rm, r) ==
    /\ IsRaw(i)
    /\ Commit(SctpSocket_connectx(CurW, i, as, rm, r), "connectx", i, [addresses |-> as], NoReq)

Bind(i, a, r) ==
    /\ IsRaw(i)
    /\ Commit(SctpSocket_bind(CurW, i, a, r), "bind", i, [address |-> a], NoReq)

Bindx(i, as, op, rm, r) ==
    /\ IsRaw(i)
    /\ Commit(SctpSocket_bindx(CurW, i, as, op, rm, r), "bindx", i, [addresses |-> as, op |-> op], NoReq)

Listen(i, r) ==
    /\ IsRaw(i)
    /\ Commit(SctpSocket_listen(CurW, i, 0 - 1, r), "listen", i, <<>>, NoReq)

Accept(i, r, from, rc) ==
    /\ IsRaw(i)
    /\ CanCreate
    /\ Commit(SctpSocket_accept(CurW, i, r, from, rc), "accept", i, <<>>, NoReq)

ListenerAccept(i, r, from, rc) ==
    /\ Is(i, "Listener")
    /\ CanCreate
    /\ Commit(SctpListener_accept(CurW, i, r, from, rc), "Listener::accept", i, <<>>, NoReq)

TryClone(i, r) ==
    /\ Live(i)
    /\ CanCreate
    /\ Commit(Facade_try_clone(CurW, i, r), "try_clone", i, <<>>, NoReq)

Shutdown(i, how, r) ==
    /\ Live(i)
    /\ inst[i].facade # "Listener"
    /\ Commit(SctpSocket_shutdown(CurW, i, how, r), "shutdown", i, [how |-> how], NoReq)

SetSockOpt(i, r) ==
    /\ Live(i)
    /\ Commit(SctpSocket_setsockopt(CurW, i, "SO_RCVTIMEO", r), "setsockopt", i, <<>>, NoReq)

GetSockOpt(i, r) ==
    /\ Live(i)
    /\ inst[i].facade # "Listener"
    /\ Commit(SctpSocket_getsockopt(CurW, i, "SO_RCVBUF", r), "getsockopt", i, <<>>, NoReq)

Send(i, buf, r) ==
    /\ IsRaw(i) \/ Is(i, "Stream")
    /\ Commit(SctpSocket_send(CurW, i, buf, r), "send", i, [buf |-> buf], NoReq)

Recv(i, buflen, r) ==
    /\ IsRaw(i) \/ Is(i, "Stream")
    /\ Commit(SctpSocket_recv(CurW, i, buflen, r, ExtMsg), "recv", i, [len |-> buflen], NoReq)

Sendmsg(i, msg, address, stream, r) ==
    /\ IsRaw(i)
    /\ Commit(SctpSocket_sendmsg(CurW, i, msg, address, <<0, 0, 0, 0>>, stream, 0, r), "sendmsg", i,
              [msg |-> msg, address |-> address, stream |-> stream], Req(msg, stream))

Recvmsg(i, buflen, r, from) ==
    /\ IsRaw(i)
    /\ Commit(SctpSocket_recvmsg(CurW, i, buflen, r, ExtMsg, from), "recvmsg", i, [len |-> buflen], NoReq)

StreamSendmsg(i, msg, stream, r) ==
    /\ Is(i, "Stream")
    /\ Commit(SctpStream_sendmsg(CurW, i, msg, stream, r), "Stream::sendmsg", i,
              [msg |-> msg, stream |-> stream], Req(msg, stream))

StreamRecvmsg(i, buflen, r, from) ==
    /\ Is(i, "Stream")
    /\ Commit(SctpStream_recvmsg(CurW, i, buflen, r, ExtMsg, from), "Stream::recvmsg", i,
              [len |-> buflen], NoReq)

EndpointSendTo(i, msg, address, stream, r) ==
    /\ Is(i, "Endpoint")
    /\ Commit(SctpEndpoint_send_to(CurW, i, msg, address, stream, r), "Endpoint::send_to", i,
              [msg |-> msg, address |-> address, stream |-> stream], Req(msg, stream))

EndpointRecvFrom(i, buflen, r, from) ==
    /\ Is(i, "Endpoint")
    /\ Commit(SctpEndpoint_recv_from(CurW, i, buflen, r, ExtMsg, from), "Endpoint::recv_from", i,
              [len |-> buflen], NoReq)

Addrs(i, what, r, recs, junk) ==
    /\ Live(i)
    /\ what = "Peer" => inst[i].facade \in {"Raw", "Stream"}
    /\ Commit(SctpSocket_addrs(CurW, i, what, r, recs, junk),
              IF what = "Local" THEN "local_addrs" ELSE "peer_addrs", i,
              [list |-> recs, junk |-> junk], NoReq)

IncomingNext(i, r, from, rc) ==
    /\ Is(i, "Listener")
    /\ CanCreate \/ r # "ok"
    /\ Commit(Incoming_next(CurW, i, r, from, rc), "Incoming::next", i, [from |-> from], NoReq)

\* The instance goes out of scope.
DropInst(i, rc) ==
    /\ Live(i)
    /\ Commit([w |-> Drop(CurW, i, rc), ret |-> Ok(<<>>)], "drop", i, <<>>, NoReq)

StreamConnect(a, o) ==
    /\ CanCreate
    /\ Commit(SctpStream_connect(CurW, a, o), "Stream::connect", 0, [address |-> a], NoReq)

StreamConnectx(as, o) ==
    /\ CanCreate
    /\ Commit(SctpStream_connectx(CurW, as, o), "Stream::connectx", 0, [addresses |-> as], NoReq)

EndpointBind(a, o) ==
    /\ CanCreate
    /\ Commit(SctpEndpoint_bind(CurW, a, o), "Endpoint::bind", 0, [address |-> a], NoReq)

EndpointBindx(as, o) ==
    /\ CanCreate
    /\ Commit(SctpEndpoint_bindx(CurW, as, o), "Endpoint::bindx", 0, [addresses |-> as], NoReq)

ListenerBind(a, o) ==
    /\ CanCreate
    /\ Commit(SctpListener_bind(CurW, a, o), "Listener::bind", 0, [address |-> a], NoReq)

ListenerBindx(as, o) ==
    /\ CanCreate
    /\ Commit(SctpListener_bindx(CurW, as, o), "Listener::bindx", 0, [addresses |-> as], NoReq)

Payload == <<104, 105>>

\* The inputs of the life cycle: few, since here the order of the
\* operations matters, not their arguments.  The operations that leave the
\* handles as they are succeed here; SpecOps has them fail.
LifeArgs == {ArgV4, NoneArg}
LifeLists == {<<>>, <<ArgV4, ArgV6>>}
LifeOutcomes == {"ok", "EACCES"}
LifeOracles(steps) == [failAt : steps \cup {"none"}, errno : {"EACCES"}, close : {"ok"}]

\* Number of instances a run of the life cycle creates.
MaxLife == 2
LifeRoom == Cardinality({i \in Insts : inst[i].st # "none"}) < MaxLife

Next ==
    \/ \E r \in LifeOutcomes : LifeRoom /\ RawNew(AF_INET, SOCK_STREAM, r)
    \/ \E i \in Insts, a \in LifeArgs, r \in Outcomes : Connect(i, a, r)
    \/ \E i \in Insts, as \in LifeLists, r \in LifeOutcomes : Connectx(i, as, "ok", r)
    \/ \E i \in Insts, a \in LifeArgs, r \in LifeOutcomes : Bind(i, a, r)
    \/ \E i \in Insts, as \in LifeLists, r \in LifeOutcomes : Bindx(i, as, "AddAddr", "ok", r)
    \/ \E i \in Insts, r \in LifeOutcomes : Listen(i, r)
    \/ \E i \in Insts, r \in LifeOutcomes, from \in {Loopback4, NoPeer}, rc \in CloseOutcomes :
          LifeRoom /\ Accept(i, r, from, rc)
    \/ \E i \in Insts, r \in LifeOutcomes, from \in {Loopback4, NoPeer}, rc \in CloseOutcomes :
          LifeRoom /\ ListenerAccept(i, r, from, rc)
    \/ \E i \in Insts, r \in LifeOutcomes, from \in {Loopback4, NoPeer}, rc \in CloseOutcomes :
          LifeRoom /\ IncomingNext(i, r, from, rc)
    \/ \E i \in Insts, r \in LifeOutcomes : LifeRoom /\ TryClone(i, r)
    \/ \E i \in Insts, how \in {"Read", "Write", "Both"}, r \in {"ok"} : Shutdown(i, how, r)
    \/ \E i \in Insts, r \in {"ok"} : SetSockOpt(i, r)
    \/ \E i \in Insts, r \in {"ok"} : GetSockOpt(i, r)
    \/ \E i \in Insts, r \in {"ok"} : Send(i, Payload, r)
    \/ \E i \in Insts, r \in {"ok"} : Recv(i, 2, r)
    \/ \E i \in Insts, r \in {"ok"} : Sendmsg(i, Payload, None, 6, r)
    \/ \E i \in Insts, r \in {"ok"} : Recvmsg(i, 2, r, Loopback4)
    \/ \E i \in Insts, r \in {"ok"} : StreamSendmsg(i, Payload, 6, r)
    \/ \E i \in Insts, r \in {"ok"} : StreamRecvmsg(i, 2, r, Loopback4)
    \/ \E i \in Insts, r \in {"ok"} : EndpointSendTo(i, Payload, ArgV4, 6, r)
    \/ \E i \in Insts, r \in {"ok"} : EndpointRecvFrom(i, 2, r, Loopback4)
    \/ \E i \in Insts, rc \in CloseOutcomes : DropInst(i, rc)
    \/ \E a \in LifeArgs, o \in LifeOracles({"socket", "connect"}) : LifeRoom /\ StreamConnect(a, o)
    \/ \E as \in LifeLists, o \in LifeOracles({"socket", "sctp_connectx"}) : LifeRoom /\ StreamConnectx(as, o)
    \/ \E a \in LifeArgs, o \in LifeOracles({"socket", "bind", "listen"}) : LifeRoom /\ EndpointBind(a, o)
    \/ \E as \in LifeLists, o \in LifeOracles({"socket", "sctp_bindx", "listen"}) : LifeRoom /\ EndpointBindx(as, o)
    \/ \E a \in LifeArgs, o \in LifeOracles({"socket", "bind", "listen"}) : LifeRoom /\ ListenerBind(a, o)
    \/ \E as \in LifeLists, o \in LifeOracles({"socket", "sctp_bindx", "listen"}) : LifeRoom /\ ListenerBindx(as, o)

Spec == Init /\ [][Next]_vars

---------------------------------------------------------------------------
(* One operation at a time, over all its arguments and OS outcomes: a      *)
(* constructor from the initial state, or a raw operation on a socket      *)
(* that SctpSocket::new has just returned.                                 *)

InitOps == InitSock /\ IdleAddr /\ endian \in Endians

Fresh == last.op = "none"
JustNew(i) == last.op = "new" /\ last.ret.ok /\ last.ret.val = i
JustBuilt(i) == last.op \in {"Stream::connect", "Endpoint::bind"} /\ last.ret.ok /\ last.ret.val = i

NextOps ==
    \/ \E fam \in {AF_INET, AF_INET6}, typ \in {SOCK_STREAM, SOCK_SEQPACKET}, r \in Outcomes :
          Fresh /\ RawNew(fam, typ, r)
    \/ \E i \in Insts, a \in AddrArgs, r \in Outcomes : JustNew(i) /\ Connect(i, a, r)
    \/ \E i \in Insts, as \in AddrLists, rm \in {"ok", "null"}, r \in Outcomes :
          JustNew(i) /\ Connectx(i, as, rm, r)
    \/ \E i \in Insts, a \in AddrArgs, r \in Outcomes : JustNew(i) /\ Bind(i, a, r)
    \/ \E i \in Insts, as \in AddrLists, op \in {"AddAddr", "RemAddr"}, rm \in {"ok", "null"}, r \in Outcomes :
          JustNew(i) /\ Bindx(i, as, op, rm, r)
    \/ \E i \in Insts, r \in Outcomes : JustNew(i) /\ Listen(i, r)
    \/ \E i \in Insts, how \in {"Read", "Write", "Both"}, r \in Outcomes : JustNew(i) /\ Shutdown(i, how, r)
    \/ \E i \in Insts, r \in Outcomes : JustNew(i) /\ SetSockOpt(i, r)
    \/ \E i \in Insts, r \in Outcomes : JustNew(i) /\ GetSockOpt(i, r)
    \/ \E i \in Insts, r \in Outcomes : JustNew(i) /\ Send(i, Payload, r)
    \/ \E i \in Insts, r \in Outcomes : JustNew(i) /\ Recv(i, 2, r)
    \/ \E i \in Insts, a \in {None} \cup {Some(x) : x \in AddrArgs}, r \in Outcomes :
          JustNew(i) /\ Sendmsg(i, Payload, a, 6, r)
    \/ \E i \in Insts, r \in Outcomes, from \in PeerAddrs : JustNew(i) /\ Recvmsg(i, 2, r, from)
    \/ \E i \in Insts, r \in Outcomes : JustNew(i) /\ TryClone(i, r)
    \/ \E i \in Insts, r \in Outcomes, from \in PeerAddrs, rc \in CloseOutcomes :
          JustNew(i) /\ Accept(i, r, from, rc)
    \/ \E i \in Insts, what \in {"Local", "Peer"}, r \in Outcomes, recs \in OsAddrLists, junk \in Junks :
          JustNew(i) /\ Addrs(i, what, r, recs, junk)
    \/ \E i \in Insts, rc \in CloseOutcomes : DropInst(i, rc)
    \/ \E i \in Insts, r \in Outcomes : JustBuilt(i) /\ StreamSendmsg(i, Payload, 6, r)
    \/ \E i \in Insts, a \in AddrArgs \cup {ArgTwo}, r \in Outcomes :
          JustBuilt(i) /\ EndpointSendTo(i, Payload, a, 6, r)
    \/ \E a \in AddrArgs, o \in Oracles({"socket", "connect"}) : Fresh /\ StreamConnect(a, o)
    \/ \E as \in AddrLists, o \in Oracles({"socket", "malloc", "sctp_connectx"}) :
          Fresh /\ StreamConnectx(as, o)
    \/ \E a \in AddrArgs, o \in Oracles({"socket", "bind", "listen"}) : Fresh /\ EndpointBind(a, o)
    \/ \E as \in AddrLists, o \in Oracles({"socket", "malloc", "sctp_bindx", "listen"}) :
          Fresh /\ EndpointBindx(as, o)
    \/ \E a \in AddrArgs, o \in Oracles({"socket", "bind", "listen"}) : Fresh /\ ListenerBind(a, o)
    \/ \E as \in AddrLists, o \in Oracles({"socket", "malloc", "sctp_bindx", "listen"}) :
          Fresh /\ ListenerBindx(as, o)

SpecOps == InitOps /\ [][NextOps]_vars

---------------------------------------------------------------------------
(* A listener and the streams it accepts: what SctpListener::bind leaves,  *)
(* then accept, Incoming::next, traffic on the streams, and releases.      *)

InitAccept ==
    /\ IdleWait
    /\ fdtab = [f \in Fds |-> IF f = 1 THEN 1 ELSE 0]
    /\ ksock = [k \in Kids |-> IF k = 1 THEN "listening" ELSE "free"]
    /\ rxq = [k \in Kids |-> <<>>]
    /\ kpeer = [k \in Kids |-> 0]
    /\ reqs = [k \in Kids |-> <<>>]
    /\ inst = [i \in Insts |->
                 IF i = 1 THEN [st |-> "live", fd |-> 1, facade |-> "Listener", origin |-> "new", of |-> 0]
                 ELSE NoInst]
    /\ nclose = [i \in Insts |-> 0]
    /\ last = NoLast
    /\ IdleAddr
    /\ endian = "little"

NextAccept ==
    \/ \E i \in Insts, r \in Outcomes, from \in PeerAddrs, rc \in CloseOutcomes :
          ListenerAccept(i, r, from, rc)
    \/ \E i \in Insts, r \in Outcomes, from \in PeerAddrs, rc \in CloseOutcomes :
          IncomingNext(i, r, from, rc)
    \/ \E i \in Insts, r \in Outcomes : Send(i, Payload, r)
    \/ \E i \in Insts, r \in Outcomes : Recv(i, 2, r)
    \/ \E i \in Insts, r \in Outcomes : SetSockOpt(i, r)
    \/ \E i \in Insts, rc \in CloseOutcomes : DropInst(i, rc)

SpecAccept == InitAccept /\ [][NextAccept]_vars

---------------------------------------------------------------------------
(* A listener with a receive timeout: SctpListener::set_timeout, and an    *)
(* accept that blocks until a connection arrives, the OS fails it, or the  *)
(* timeout of the socket has elapsed (linux: the call then fails with      *)
(* EAGAIN).                                                                *)

MaxTimeout == 2
EAGAIN == "EAGAIN"

\* io::Error::kind() of the error an operation returned: an error made by
\* Error::last_os_error() has the kind that goes with its code.
ErrorKind(ret) ==
    IF ret.kind # "Os" THEN ret.kind
    ELSE CASE ret.errno = EAGAIN -> "WouldBlock"
           [] ret.errno = "ETIMEDOUT" -> "TimedOut"
           [] ret.errno = "EACCES" -> "PermissionDenied"
           [] OTHER -> "Other"

\* SctpListener::set_timeout
SctpListener_set_timeout(w, i, timeout, r) ==
    SctpSocket_setsockopt(w, i, [name |-> "SO_RCVTIMEO", tv_sec |-> timeout, tv_usec |-> 0], r)

\* The kernel socket behind instance i.
KidOf(i) == fdtab[inst[i].fd]

ListenerSetTimeout(i, timeout, r) ==
    /\ Is(i, "Listener")
    /\ pend = NoPend
    /\ LET out == SctpListener_set_timeout(CurW, i, timeout, r) IN
       /\ CommitSock(out, "Listener::set_timeout", i, [timeout |-> timeout], NoReq)
       /\ rcvtimeo' = IF out.ret.ok THEN [rcvtimeo EXCEPT ![KidOf(i)] = timeout] ELSE rcvtimeo
    /\ pend' = pend
    /\ thr' = thr

\* A thread calls SctpListener::accept: no connection is waiting, it blocks.
AcceptBegin(i) ==
    /\ Is(i, "Listener")
    /\ pend = NoPend
    /\ pend' = [inst |-> i, waited |-> 0]
    /\ last' = [NoLast EXCEPT !.op = "Listener::accept called", !.inst = i]
    /\ UNCHANGED <<fdtab, ksock, rxq, kpeer, reqs, inst, nclose, addrVars, rcvtimeo, thr>>

\* A second passes while the thread is blocked.
Tick ==
    /\ pend # NoPend
    /\ pend.waited < (IF rcvtimeo[KidOf(pend.inst)] = 0 THEN MaxTimeout ELSE rcvtimeo[KidOf(pend.inst)])
    /\ pend' = [pend EXCEPT !.waited = @ + 1]
    /\ UNCHANGED <<sockVars, addrVars, rcvtimeo, thr>>

\* The blocked accept returns: a connection has arrived, or the OS fails it.
AcceptReturns(i, r, from, rc) ==
    /\ pend # NoPend
    /\ pend.inst = i
    /\ CanCreate \/ r # "ok"
    /\ CommitSock(SctpListener_accept(CurW, i, r, from, rc), "Listener::accept", i,
                  [timedout |-> FALSE], NoReq)
    /\ pend' = NoPend
    /\ rcvtimeo' = rcvtimeo
    /\ thr' = thr

\* The blocked accept returns: the timeout of the socket has elapsed.
AcceptTimesOut(i) ==
    /\ pend # NoPend
    /\ pend.inst = i
    /\ rcvtimeo[KidOf(i)] > 0
    /\ pend.waited = rcvtimeo[KidOf(i)]
    /\ CommitSock(SctpListener_accept(CurW, i, EAGAIN, Loopback4, "ok"), "Listener::accept", i,
                  [timedout |-> TRUE], NoReq)
    /\ pend' = NoPend
    /\ rcvtimeo' = rcvtimeo
    /\ thr' = thr

NextTimeout ==
    \/ \E i \in Insts, timeout \in 0..MaxTimeout, r \in Outcomes : ListenerSetTimeout(i, timeout, r)
    \/ \E i \in Insts : AcceptBegin(i)
    \/ Tick
    \/ \E i \in Insts, r \in Outcomes, from \in PeerAddrs, rc \in CloseOutcomes :
          AcceptReturns(i, r, from, rc)
    \/ \E i \in Insts : AcceptTimesOut(i)
    \/ \E i \in Insts, rc \in CloseOutcomes : Is(i, "Stream") /\ DropInst(i, rc)

\* Time passes, and the OS ends a call whose timeout has elapsed.
SpecTimeout ==
    /\ InitAccept
    /\ [][NextTimeout]_vars
    /\ WF_vars(Tick)
    /\ WF_vars(\E i \in Insts : AcceptTimesOut(i))

---------------------------------------------------------------------------
(* Two connected streams of one host, each the other's peer: what          *)
(* SctpStream::connect to a local listener and its accept leave.           *)

\* Longest payload sent.
MaxPayload == 2
\* Longest receive buffer.
MaxRecvBuf == 3

PayloadBytes == {7, 9}
Payloads == UNION {[1..n -> PayloadBytes] : n \in 1..MaxPayload}
StreamIds == {0, 6, 65535}

InitMsg ==
    /\ IdleWait
    /\ fdtab = [f \in Fds |-> IF f <= 2 THEN f ELSE 0]
    /\ ksock = [k \in Kids |-> IF k <= 2 THEN "connected" ELSE "free"]
    /\ rxq = [k \in Kids |-> <<>>]
    /\ kpeer = [k \in Kids |-> IF k = 1 THEN 2 ELSE IF k = 2 THEN 1 ELSE 0]
    /\ reqs = [k \in Kids |-> <<>>]
    /\ inst = [i \in Insts |->
                 IF i = 1 THEN [st |-> "live", fd |-> 1, facade |-> "Stream", origin |-> "new", of |-> 0]
                 ELSE IF i = 2 THEN [st |-> "live", fd |-> 2, facade |-> "Stream", origin |-> "accept", of |-> 0]
                 ELSE NoInst]
    /\ nclose = [i \in Insts |-> 0]
    /\ last = NoLast
    /\ IdleAddr
    /\ endian \in Endians

NextMsg ==
    \/ \E msg \in Payloads, s \in StreamIds, r \in Outcomes : StreamSendmsg(1, msg, s, r)
    \/ \E n \in 0..MaxRecvBuf, r \in Outcomes, from \in PeerAddrs : StreamRecvmsg(2, n, r, from)

SpecMsg == InitMsg /\ [][NextMsg]_vars

---------------------------------------------------------------------------
(* Two threads that call SctpSocket::sendmsg at the same time on one       *)
(* connected socket, through the handle or through its clone.  A call is   *)
(* two steps: the thread's own preparation of the arguments, and the call  *)
(* of sctp_sendmsg, which the kernel runs as one step.  last.calls is the  *)
(* sequence of the calls the OS has received.                              *)

\* Thread t sends bytes of its own, so that a mix of two payloads shows.
ThreadPayloads(t) == {<<10 * t>>, <<10 * t, 10 * t + 1>>}
ThreadInputs(t) ==
    {[NoThread EXCEPT !.pc = "called", !.h = h, !.msg = m, !.address = a, !.stream = s] :
        h \in (IF t = 1 THEN {1} ELSE {1, 2}), m \in ThreadPayloads(t),
        a \in {None, Some(ArgV6), Some(ArgLookupErr)}, s \in {0, 6}}

InitConc ==
    /\ rcvtimeo = [k \in Kids |-> 0]
    /\ pend = NoPend
    /\ thr \in [Threads -> UNION {ThreadInputs(t) : t \in Threads}]
    /\ \A t \in Threads : thr[t] \in ThreadInputs(t)
    /\ fdtab = [f \in Fds |-> IF f <= 2 THEN 1 ELSE 0]
    /\ ksock = [k \in Kids |-> IF k = 1 THEN "connected" ELSE "free"]
    /\ rxq = [k \in Kids |-> <<>>]
    /\ kpeer = [k \in Kids |-> 0]
    /\ reqs = [k \in Kids |-> <<>>]
    /\ inst = [i \in Insts |->
                 IF i = 1 THEN [st |-> "live", fd |-> 1, facade |-> "Raw", origin |-> "new", of |-> 0]
                 ELSE IF i = 2 THEN [st |-> "live", fd |-> 2, facade |-> "Raw", origin |-> "clone", of |-> 1]
                 ELSE NoInst]
    /\ nclose = [i \in Insts |-> 0]
    /\ last = NoLast
    /\ IdleAddr
    /\ endian \in Endians

\* Thread t runs sendmsg up to the call of sctp_sendmsg.
ThreadPrepare(t) ==
    /\ thr[t].pc = "called"
    /\ LET loc == sendmsg_locals(thr[t].address, <<0, 0, 0, 0>>) IN
       thr' = [thr EXCEPT ![t] = IF loc.ok THEN [@ EXCEPT !.pc = "ready", !.loc = loc.val]
                                 ELSE [@ EXCEPT !.pc = "done", !.ret = loc]]
    /\ UNCHANGED <<sockVars, addrVars, waitVars>>

\* Thread t calls sctp_sendmsg and returns with its result.
ThreadSyscall(t, r) ==
    /\ thr[t].pc = "ready"
    /\ LET out == sendmsg_call([CurW EXCEPT !.calls = last.calls], thr[t].h, thr[t].msg,
                               thr[t].loc, thr[t].stream, 0, r) IN
       /\ CommitSock(out, "sendmsg", thr[t].h, [thread |-> t], NoReq)
       /\ thr' = [thr EXCEPT ![t] = [@ EXCEPT !.pc = "done", !.ret = out.ret]]
    /\ UNCHANGED waitVars

NextConc ==
    \/ \E t \in Threads : ThreadPrepare(t)
    \/ \E t \in Threads, r \in Outcomes : ThreadSyscall(t, r)

SpecConc == InitConc /\ [][NextConc]_vars

---------------------------------------------------------------------------
(* Marshaling harness: inputs                                              *)

\* Number of octet values, beyond 0, 1 and 255, the sampled addresses use.
NOctetExtra == 1
\* Number of IPv6 octet patterns.
NIp6Patterns == 2
\* Largest length handed to from_raw_ptr with a raw buffer.
MaxRawLen == 30

OctetSamples == {0, 1, 255} \cup {(k * 127) % 256 : k \in 1..NOctetExtra}
PortSamples == {0, 1, 255, 256, 3868, 65535}
U32Samples == {<<0, 0, 0, 0>>, <<0, 0, 0, 1>>, <<1, 2, 3, 4>>, <<255, 255, 255, 255>>}

Ip4Samples == {<<a, b, c, d>> : a \in OctetSamples, b \in {0, 168}, c \in {0, 1}, d \in OctetSamples}
\* 16 octets that differ from one another: octet i is (first + i * step) mod 256
Ip6Pattern(first, step) == [i \in 1..16 |-> (first + (i - 1) * step) % 256]
Ip6Samples == {Ip6Pattern(f, s) : f \in OctetSamples, s \in 0..(NIp6Patterns - 1)}

SampleAddrs ==
    {V4(ip, p) : ip \in Ip4Samples, p \in PortSamples}
    \cup {V6(ip, p, f, s) : ip \in Ip6Samples, p \in {0, 3868, 65535}, f \in U32Samples, s \in U32Samples}

\* 0 is AF_UNSPEC and 1 is AF_UNIX
FamilyTags == {0, 1, AF_INET, AF_INET6}
\* A raw buffer of exactly len bytes whose first two bytes, when it has
\* them, are the family tag.
RawBuffer(tag, len, fill) ==
    [i \in 1..len |-> IF i <= 2 THEN U16NeBytes(tag)[i] ELSE fill]

InitAddr ==
    /\ InitSock
    /\ endian \in Endians
    /\ dec1 = NoRes
    /\ dec2 = Err("none")
    /\ \/ /\ apc = "start"
          /\ aIn \in SampleAddrs
          /\ cbuf = <<>>
          /\ clen = 0
       \/ /\ apc = "raw"
          /\ aIn = NoAddr
          /\ clen \in 0..MaxRawLen
          /\ \E tag \in FamilyTags, fill \in {0, 10} : cbuf = RawBuffer(tag, clen, fill)

\* socket_addr(&addrobj)
Encode ==
    /\ apc = "start"
    /\ cbuf' = socket_addr(aIn).mem
    /\ clen' = socket_addr(aIn).len
    /\ apc' = "encoded"
    /\ UNCHANGED <<endian, aIn, dec1, dec2>>
    /\ UNCHANGED sockVars
    /\ UNCHANGED <<waitVars, thr>>

\* SocketAddr::from_raw_ptr and to_socket_addr on the encoded address
Decode ==
    /\ apc = "encoded"
    /\ dec1' = from_raw_ptr(cbuf, clen)
    /\ dec2' = to_socket_addr(cbuf)
    /\ apc' = "decoded"
    /\ UNCHANGED <<endian, aIn, cbuf, clen>>
    /\ UNCHANGED sockVars
    /\ UNCHANGED <<waitVars, thr>>

\* SocketAddr::from_raw_ptr on a raw buffer
DecodeRaw ==
    /\ apc = "raw"
    /\ dec1' = from_raw_ptr(cbuf, clen)
    /\ apc' = "rawdone"
    /\ UNCHANGED <<endian, aIn, cbuf, clen, dec2>>
    /\ UNCHANGED sockVars
    /\ UNCHANGED <<waitVars, thr>>

NextAddr == Encode \/ Decode \/ DecodeRaw

SpecAddr == InitAddr /\ [][NextAddr]_vars

---------------------------------------------------------------------------
(* Properties                                                              *)

CallsNamed(n) == {k \in 1..Len(last.calls) : last.calls[k].call = n}
CtorOps == {"Stream::connect", "Stream::connectx", "Endpoint::bind", "Endpoint::bindx",
            "Listener::bind", "Listener::bindx"}
MultiCtorOps == {"Stream::connectx", "Endpoint::bindx", "Listener::bindx"}

\* C1: the descriptor an instance holds is closed exactly once, when the
\* instance is dropped: a live instance holds an open descriptor that no
\* close was issued for and that no other live instance holds, a dropped
\* instance has had exactly one close; no operation but a drop (or the
\* release of a socket by the call that created it) issues a close, shutdown
\* least of all; and every system call on a descriptor finds it open.
C1_ClosedExactlyOnceAtDrop ==
    /\ \A i \in Insts :
          /\ inst[i].st = "none" => nclose[i] = 0
          /\ inst[i].st = "live" =>
                /\ nclose[i] = 0
                /\ inst[i].fd \in Fds
                /\ fdtab[inst[i].fd] # 0
                /\ \A j \in Insts : j # i /\ inst[j].st = "live" => inst[j].fd # inst[i].fd
          /\ inst[i].st = "dropped" => nclose[i] = 1
    /\ \A k \in 1..Len(last.calls) : last.calls[k].call # "socket" => last.calls[k].open
    /\ last.op \in {"bind", "bindx", "connect", "connectx", "listen", "send", "recv", "sendmsg",
                    "recvmsg", "Stream::sendmsg", "Stream::recvmsg", "Endpoint::send_to",
                    "Endpoint::recv_from", "getsockopt", "setsockopt", "shutdown", "try_clone", "new"}
          => /\ CallsNamed("close") = {}
             /\ last.inst # 0 => inst[last.inst].st = "live"
    /\ last.op = "drop" =>
          /\ Len(last.calls) = 1
          /\ last.calls[1].call = "close"
          /\ inst[last.inst].st = "dropped"

\* C1 witness: an instance was dropped, its one close failed, and the
\* instance has exactly that close to its name.
C1_Witness ==
    /\ last.op = "drop"
    /\ last.calls[1].call = "close"
    /\ last.calls[1].open
    /\ last.calls[1].res = "EIO"
    /\ nclose[last.inst] = 1

\* C3: a successful try_clone leaves the original and the clone with two
\* different open descriptors of the same kernel socket; whichever of the
\* instances of a kernel socket are dropped, the others keep open
\* descriptors of a kernel socket that is still there, a send or a receive
\* on them reaches the OS and ends as the OS decides, and no instance has
\* more than one close.
C3_CloneOwnsItsOwnHandle ==
    /\ last.op = "try_clone" /\ last.ret.ok =>
          LET o == last.inst  c == last.ret.val IN
          /\ c # o
          /\ inst[c].st = "live" /\ inst[o].st = "live"
          /\ inst[c].origin = "clone" /\ inst[c].of = o
          /\ inst[c].facade = inst[o].facade
          /\ inst[c].fd # inst[o].fd
          /\ fdtab[inst[c].fd] # 0
          /\ fdtab[inst[c].fd] = fdtab[inst[o].fd]
          /\ last.calls = <<Call("dup", inst[o].fd, TRUE, <<>>, "ok")>>
    /\ \A i \in Insts : inst[i].st = "live" =>
          /\ fdtab[inst[i].fd] # 0
          /\ ksock[fdtab[inst[i].fd]] # "free"
          /\ \A j \in Insts : j # i /\ inst[j].st = "live" => inst[j].fd # inst[i].fd
    /\ \A i \in Insts : nclose[i] <= 1 /\ (inst[i].st = "dropped" <=> nclose[i] = 1)
    /\ last.op = "drop" =>
          /\ CallsNamed("close") = {1}
          /\ Len(last.calls) = 1
          /\ last.calls[1].open
    /\ last.op \in {"send", "recv"} =>
          /\ Len(last.calls) = 1
          /\ last.calls[1].fd = inst[last.inst].fd
          /\ last.calls[1].open
          /\ last.calls[1].res = "ok"
          /\ last.ret.ok

\* C3 witness: the original of a clone has been dropped, and a send on the
\* clone succeeds.
C3_Witness ==
    /\ last.op = "send"
    /\ last.ret.ok
    /\ inst[last.inst].origin = "clone"
    /\ inst[inst[last.inst].of].st = "dropped"
    /\ nclose[inst[last.inst].of] = 1
    /\ nclose[last.inst] = 0

\* C2: a facade constructor whose step after the creation of the socket
\* fails closes the socket's descriptor exactly once, as its last system
\* call, returns the error of the step (never that of the close) and leaves
\* no instance behind; one that succeeds closes nothing and returns a
\* facade that holds the descriptor; one that created no socket has nothing
\* to close.
C2_CtorFailureReleasesSocket ==
    last.op \in CtorOps =>
        LET calls == last.calls
            n == Len(calls)
            created == n > 0 /\ calls[1].call = "socket" /\ calls[1].res = "ok"
            closes == CallsNamed("close")
        IN  /\ CallsNamed("socket") \subseteq {1}
            /\ ~created =>
                  /\ ~last.ret.ok
                  /\ closes = {}
                  /\ \A i \in Insts : inst[i].st = "none"
            /\ created /\ last.ret.ok =>
                  /\ closes = {}
                  /\ inst[last.ret.val].st = "live"
                  /\ inst[last.ret.val].facade # "Raw"
                  /\ inst[last.ret.val].fd = calls[1].fd
                  /\ fdtab[calls[1].fd] # 0
                  /\ nclose[last.ret.val] = 0
            /\ created /\ ~last.ret.ok =>
                  /\ closes = {n}
                  /\ calls[n].fd = calls[1].fd
                  /\ calls[n].open
                  /\ \A i \in Insts : inst[i].st # "live"
                  /\ \A i \in Insts : nclose[i] = (IF inst[i].st = "dropped" THEN 1 ELSE 0)
                  /\ Cardinality({i \in Insts : inst[i].st = "dropped"}) = 1
                  /\ \A f \in Fds : fdtab[f] = 0
                  /\ last.ret.errno \notin CloseOutcomes
                  /\ calls[n - 1].call \in {"bind", "sctp_bindx", "connect", "sctp_connectx", "listen"}
                        /\ calls[n - 1].res # "ok"
                        => last.ret = OsErr(calls[n - 1].res)
                  /\ calls[n - 1].res = "ok" => last.ret = Err("Other")

\* C2 witness: SctpListener::bind whose listen fails with EACCES and whose
\* close then fails too: socket, bind, listen, close, and EACCES returned.
C2_Witness ==
    /\ last.op = "Listener::bind"
    /\ Len(last.calls) = 4
    /\ last.calls[3].call = "listen"
    /\ last.calls[3].res = "EACCES"
    /\ last.calls[4].call = "close"
    /\ last.calls[4].res = "EIO"
    /\ last.ret = OsErr("EACCES")

\* C4: SctpSocket::bindx and SctpSocket::connectx free the buffer they
\* allocated exactly once on every path: after the call the buffer has
\* been freed as often as it was allocated.
C4_BufferFreedOnEveryPath ==
    last.op \in {"bindx", "connectx"} =>
        /\ last.buf.allocs <= 1
        /\ last.buf.frees = last.buf.allocs

\* C6: bindx and connectx on an empty list fail with InvalidInput without a
\* buffer, a system call or, in the constructors, a socket; and the OS call
\* of a list of n addresses is handed the count n and n encoded addresses:
\* 1 for a list of one.
C6_EmptyListRejectedFirst ==
    last.op \in {"bindx", "connectx"} \cup MultiCtorOps =>
        LET as == last.args.addresses
            xs == CallsNamed("sctp_bindx") \cup CallsNamed("sctp_connectx")
        IN  /\ as = <<>> =>
                  /\ last.ret = Err("InvalidInput")
                  /\ last.calls = <<>>
                  /\ last.buf = NoBuf
                  /\ last.op \in MultiCtorOps => \A i \in Insts : inst[i].st = "none"
            /\ \A k \in xs :
                  /\ last.calls[k].args.count = Len(as)
                  /\ Len(last.calls[k].args.copies) = Len(as)
                  /\ as # <<>>
            /\ Cardinality(xs) <= 1
            /\ Len(as) = 1 /\ last.ret.ok => \E k \in xs : last.calls[k].args.count = 1

\* C6 witness: SctpSocket::bindx on the empty list has answered InvalidInput.
C6_Witness ==
    /\ last.op = "bindx"
    /\ last.args.addresses = <<>>
    /\ last.ret = Err("InvalidInput")
    /\ last.calls = <<>>

IsV6Arg(a) == a.err = "none" /\ a.addrs # <<>> /\ a.addrs[1].fam = "v6"

\* C7: the multi-address constructors create their socket, once and before
\* any other system call, with family AF_INET6 when some address of the
\* list is IPv6 and with AF_INET otherwise, wherever in the list the IPv6
\* address stands.
C7_FamilyInference ==
    last.op \in MultiCtorOps /\ CallsNamed("socket") # {} =>
        LET as == last.args.addresses IN
        /\ CallsNamed("socket") = {1}
        /\ as # <<>>
        /\ last.calls[1].args.family =
              (IF \E k \in 1..Len(as) : IsV6Arg(as[k]) THEN AF_INET6 ELSE AF_INET)
        /\ last.calls[1].args.type =
              (IF last.op = "Endpoint::bindx" THEN SOCK_SEQPACKET ELSE SOCK_STREAM)

\* C7 witness: SctpStream::connectx on an IPv6 address followed by an IPv4
\* address has created an AF_INET6 socket.
C7_Witness ==
    /\ last.op = "Stream::connectx"
    /\ last.args.addresses = <<ArgV6, ArgV4>>
    /\ last.calls # <<>>
    /\ last.calls[1].call = "socket"
    /\ last.calls[1].args.family = AF_INET6

\* C9 as stated: SctpSocket::connect succeeds exactly when the OS connect
\* succeeded or ended with EINPROGRESS, returns every other OS error as it
\* is, and answers InvalidInput, without an OS call, for an address that
\* does not resolve.
C9_UnresolvedIsInvalidInput ==
    last.op = "connect" =>
        LET a == last.args.address IN
        IF a.err # "none" \/ a.addrs = <<>>
        THEN last.ret = Err("InvalidInput") /\ last.calls = <<>>
        ELSE /\ Len(last.calls) = 1
             /\ last.calls[1].call = "connect"
             /\ last.ret.ok <=> last.calls[1].res \in {"ok", EINPROGRESS}
             /\ ~last.ret.ok => last.ret = OsErr(last.calls[1].res)

\* C9 amended: SctpSocket::connect succeeds exactly when the OS connect
\* succeeded or ended with EINPROGRESS and returns every other OS error as
\* it is; an address whose resolution fails yields the resolver's error, and
\* one whose resolution yields no address yields InvalidInput, both without
\* an OS call.
C9_ConnectResult ==
    last.op = "connect" =>
        LET a == last.args.address IN
        IF a.err # "none" THEN last.ret = Err(a.err) /\ last.calls = <<>>
        ELSE IF a.addrs = <<>> THEN last.ret = Err("InvalidInput") /\ last.calls = <<>>
        ELSE /\ Len(last.calls) = 1
             /\ last.calls[1].call = "connect"
             /\ last.calls[1].fd = inst[last.inst].fd
             /\ last.calls[1].args = RawArg(socket_addr(a.addrs[1]))
             /\ last.ret.ok <=> last.calls[1].res \in {"ok", EINPROGRESS}
             /\ ~last.ret.ok => last.ret = OsErr(last.calls[1].res)

\* C9 witness: the OS connect ended with EINPROGRESS and connect returned Ok.
C9_Witness ==
    /\ last.op = "connect"
    /\ Len(last.calls) = 1
    /\ last.calls[1].res = EINPROGRESS
    /\ last.ret.ok

\* C10: SctpStream::sendmsg(p, s) hands the OS one message of stream s and
\* bytes p, and recvmsg returns the byte count and the stream the OS
\* delivered: the receiver of a message sent as (p, s) obtains stream s,
\* and the bytes of p as far as its buffer goes, without an error.
C10_StreamAndPayloadPreserved ==
    /\ last.op = "Stream::sendmsg" =>
          /\ Len(last.calls) = 1
          /\ last.calls[1].call = "sctp_sendmsg"
          /\ last.calls[1].args.msg = last.args.msg
          /\ last.calls[1].args.stream = last.args.stream
    /\ last.op = "Stream::recvmsg" /\ last.ret.ok =>
          /\ last.ret.val = <<Len(last.calls[1].args.out.data), last.calls[1].args.out.stream>>
          /\ last.req.some =>
                /\ last.ret.val[2] = last.req.stream
                /\ last.calls[1].args.out.data = Take(last.req.msg, last.args.len)

\* C5: decoding what socket_addr(a) encoded, with the length it returned,
\* gives a back, through SocketAddr::from_raw_ptr and through
\* to_socket_addr, on either byte order; in the buffer the port lies most
\* significant byte first, and so do the octets of an IPv4 address.
C5_AddressRoundTrip ==
    apc = "decoded" =>
        /\ dec1.res = Ok(aIn)
        /\ dec2 = Ok(aIn)
        /\ dec1.nread = clen
        /\ clen = (IF aIn.fam = "v4" THEN SizeofSockaddrIn ELSE SizeofSockaddrIn6)
        /\ ReadBytes(cbuf, 2, 2) = <<aIn.port \div 256, aIn.port % 256>>
        /\ aIn.fam = "v4" => ReadBytes(cbuf, 4, 4) = aIn.ip
        /\ aIn.fam = "v6" => ReadBytes(cbuf, 8, 16) = aIn.ip

\* C5 witness: an IPv6 address with port 3868, a flow label and a scope id
\* has made the round trip on a little-endian target.
C5_Witness ==
    /\ apc = "decoded"
    /\ endian = "little"
    /\ aIn.fam = "v6"
    /\ aIn.port = 3868
    /\ aIn.flowinfo = <<1, 2, 3, 4>>
    /\ aIn.scope = <<0, 0, 0, 1>>
    /\ dec1.res.ok
    /\ dec2.ok

\* C8: SocketAddr::from_raw_ptr succeeds exactly when the buffer is tagged
\* AF_INET and len covers sockaddr_in, or tagged AF_INET6 and len covers
\* sockaddr_in6; every failure is InvalidInput; and it reads no byte
\* beyond len.
C8_FromRawPtrGuards ==
    apc = "rawdone" =>
        LET tag == U16FromNeBytes(ReadBytes(cbuf, 0, 2))
            fits == \/ tag = AF_INET /\ clen >= SizeofSockaddrIn
                    \/ tag = AF_INET6 /\ clen >= SizeofSockaddrIn6
        IN  /\ dec1.res.ok <=> fits
            /\ ~dec1.res.ok => dec1.res = Err("InvalidInput")
            /\ dec1.res.ok => family(dec1.res.val) = tag
            /\ dec1.nread <= clen

\* C8 witness: a buffer tagged AF_INET6 whose len covers sockaddr_in but
\* not sockaddr_in6 was refused.
C8_Witness ==
    /\ apc = "rawdone"
    /\ U16FromNeBytes(ReadBytes(cbuf, 0, 2)) = AF_INET6
    /\ clen >= SizeofSockaddrIn
    /\ clen < SizeofSockaddrIn6
    /\ dec1.res = Err("InvalidInput")

AddrsOps == {"local_addrs", "peer_addrs"}
TagOf(rec) == U16FromNeBytes(ReadBytes(rec, 0, 2))
\* Record k of the OS's list: the bytes at the offset that is the sum of
\* the lengths of the records before it.
RecordAt(recs, k) == ReadBytes(Packed(recs), Len(Packed(SubSeq(recs, 1, k - 1))), Len(recs[k]))

\* C11: when the OS hands local_addrs / peer_addrs a list of n >= 1 IPv4
\* and IPv6 records, the result is the list of the n decoded records, in
\* the OS's order, record k being the one at the offset that is the sum
\* of the lengths of the records before it.
C11_AddrsDecodesEveryRecord ==
    last.op \in AddrsOps /\ last.calls[1].res = "ok" =>
        LET recs == last.args.list IN
        Len(recs) >= 1 /\ (\A k \in 1..Len(recs) : TagOf(recs[k]) \in {AF_INET, AF_INET6})
            => last.ret = Ok([k \in 1..Len(recs) |->
                                from_raw_ptr(RecordAt(recs, k), Len(recs[k])).res.val])

\* C12: local_addrs / peer_addrs fail with AddrNotAvailable when the OS
\* reports no address and with Other when a record of the list has a
\* family that is neither IPv4 nor IPv6; and whenever the OS handed over a
\* list and the call returns, the list has been given back exactly once,
\* with the free call that matches the query.
C12_AddrsErrorsAndFree ==
    last.op \in AddrsOps /\ last.calls[1].res = "ok" =>
        LET recs == last.args.list
            frees == CallsNamed("sctp_freeladdrs") \cup CallsNamed("sctp_freepaddrs")
        IN  /\ recs = <<>> => last.ret = Err("AddrNotAvailable") /\ frees = {}
            /\ (\E k \in 1..Len(recs) : TagOf(recs[k]) \notin {AF_INET, AF_INET6})
                  => last.ret = Err("Other")
            /\ recs # <<>> /\ last.ret.kind # "Fault" =>
                  /\ Cardinality(frees) = 1
                  /\ \A k \in frees :
                        last.calls[k].call = (IF last.op = "local_addrs" THEN "sctp_freeladdrs"
                                              ELSE "sctp_freepaddrs")

\* C13: every next() of the sequence of SctpListener::incoming issues
\* exactly one accept, on the listener's open descriptor, and returns Some:
\* the accepted stream when SctpListener::accept succeeded, its error
\* otherwise; it never returns None, and it leaves the listener live and
\* open, so that the following next() accepts on it again.
C13_IncomingNeverEnds ==
    last.op = "Incoming::next" =>
        LET l == last.inst
            item == last.ret.item
        IN  /\ last.ret.some
            /\ CallsNamed("accept") = {1}
            /\ last.calls[1].fd = inst[l].fd
            /\ last.calls[1].open
            /\ inst[l].st = "live"
            /\ inst[l].facade = "Listener"
            /\ fdtab[inst[l].fd] # 0
            /\ nclose[l] = 0
            /\ item.ok <=> last.calls[1].res = "ok" /\ last.args.from.fam # "none"
            /\ last.calls[1].res # "ok" => item = OsErr(last.calls[1].res)
            /\ item.ok =>
                  /\ inst[item.val].st = "live"
                  /\ inst[item.val].facade = "Stream"
                  /\ inst[item.val].origin = "accept"
                  /\ inst[item.val].of = l
                  /\ inst[item.val].fd # inst[l].fd

\* C13 witness: next() has yielded the error of a failed accept, and the
\* listener is still there for the following next().
C13_Witness ==
    /\ last.op = "Incoming::next"
    /\ last.ret.some
    /\ last.ret.item = OsErr("EACCES")
    /\ inst[last.inst].st = "live"
    /\ ENABLED IncomingNext(last.inst, "ok", Loopback4, "ok")

AcceptOps == {"accept", "Listener::accept", "Incoming::next"}
\* The instance an accept has returned, 0 when it returned none.
Accepted ==
    IF last.op = "Incoming::next"
    THEN (IF last.ret.some /\ last.ret.item.ok THEN last.ret.item.val ELSE 0)
    ELSE (IF last.ret.ok THEN last.ret.val[1] ELSE 0)

\* Every live instance holds an open descriptor of its own, on a kernel
\* socket that is there.
HandlesApart ==
    \A i \in Insts : inst[i].st = "live" =>
        /\ inst[i].fd \in Fds
        /\ fdtab[inst[i].fd] # 0
        /\ ksock[fdtab[inst[i].fd]] # "free"
        /\ \A j \in Insts : j # i /\ inst[j].st = "live" => inst[j].fd # inst[i].fd

\* The stream a successful accept returns holds a new descriptor, on a
\* kernel socket that is neither the listener's nor another instance's.
AcceptedIsNew ==
    last.op \in AcceptOps /\ Accepted # 0 =>
        LET n == Accepted IN
        /\ n # last.inst
        /\ inst[n].st = "live"
        /\ inst[n].origin = "accept" /\ inst[n].of = last.inst
        /\ nclose[n] = 0
        /\ CallsNamed("close") = {}
        /\ \A j \in Insts : j # n /\ inst[j].st = "live" =>
              /\ inst[j].fd # inst[n].fd
              /\ fdtab[inst[j].fd] # fdtab[inst[n].fd]

\* A release closes the descriptor of the released instance, once, and
\* leaves every other instance, its descriptor and its kernel socket as
\* they were.
ReleaseFrame ==
    last'.op = "drop" /\ last' # last =>
        LET d == last'.inst IN
        /\ inst[d].st = "live"
        /\ last'.calls = <<Call("close", inst[d].fd, TRUE, <<>>, last'.calls[1].res)>>
        /\ nclose' = [nclose EXCEPT ![d] = 1]
        /\ \A j \in Insts : j # d =>
              /\ inst'[j] = inst[j]
              /\ inst[j].st = "live" =>
                    /\ fdtab'[inst[j].fd] = fdtab[inst[j].fd]
                    /\ ksock'[fdtab[inst[j].fd]] = ksock[fdtab[inst[j].fd]]

\* C14: a successful accept yields a handle that is new, distinct from the
\* listener's and from every other live handle; releasing the listener or
\* an accepted stream closes its own handle only and leaves the others
\* open, on their kernel sockets, as they were.
C14_AcceptedHandlesIndependent ==
    /\ [](HandlesApart /\ AcceptedIsNew)
    /\ [][ReleaseFrame]_vars

\* C14 witness: the listener has been released, two streams it accepted
\* are live, and a send on one of them has reached the OS and succeeded.
C14_Witness ==
    /\ last.op = "send"
    /\ last.ret.ok
    /\ last.calls[1].open
    /\ inst[last.inst].origin = "accept"
    /\ inst[inst[last.inst].of].st = "dropped"
    /\ \E j \in Insts : j # last.inst /\ inst[j].st = "live" /\ inst[j].origin = "accept"

RawOpNames ==
    {"new", "bind", "bindx", "connect", "connectx", "listen", "accept", "send", "recv",
     "sendmsg", "recvmsg", "getsockopt", "setsockopt", "shutdown", "try_clone",
     "local_addrs", "peer_addrs"}

\* The OS calls of the last operation that reported a failure, close and a
\* connect in progress apart.
FailedCalls ==
    {k \in 1..Len(last.calls) :
        /\ last.calls[k].call # "close"
        /\ last.calls[k].res # "ok"
        /\ ~(last.calls[k].call = "connect" /\ last.calls[k].res = EINPROGRESS)}

\* C15: when the OS call behind a raw operation reports a failure, the
\* operation returns the error that carries the OS error code of that
\* failure; no failing OS call is reported as success.
C15_OsErrorCodePropagated ==
    last.op \in RawOpNames /\ FailedCalls # {} =>
        \E k \in FailedCalls : last.ret = OsErr(last.calls[k].res)

\* The last operation is an accept that returned because the timeout elapsed.
TimedOutAccept == last.op = "Listener::accept" /\ last.args.timedout

\* C16: once a timeout t > 0 is set on the listener, an accept that blocks
\* on it returns in the end; when it returns because no connection arrived
\* in time, it returns an error of kind TimedOut and the listener is open,
\* listening, and free for a further accept.
C16_AcceptTimesOut ==
    /\ \A i \in Insts :
          (pend # NoPend /\ pend.inst = i /\ rcvtimeo[KidOf(i)] > 0) ~> (pend = NoPend)
    /\ [](TimedOutAccept =>
            /\ ErrorKind(last.ret) = "TimedOut"
            /\ Is(last.inst, "Listener")
            /\ FdOpen(CurW, inst[last.inst].fd)
            /\ ksock[KidOf(last.inst)] = "listening"
            /\ nclose[last.inst] = 0
            /\ ENABLED AcceptBegin(last.inst))

\* The threads whose call of sendmsg has reached the OS and returned.
Sent == {t \in Threads : thr[t].pc = "done" /\ thr[t].loc # <<>>}

\* Call k of the OS's log is the one call of thread t: its whole payload,
\* its stream id and its destination, on the descriptor of its handle, and
\* the thread has returned the result of that call.
CallOf(k, t) ==
    /\ last.calls[k].call = "sctp_sendmsg"
    /\ last.calls[k].fd = inst[thr[t].h].fd
    /\ last.calls[k].args.msg = thr[t].msg
    /\ last.calls[k].args.len = Len(thr[t].msg)
    /\ last.calls[k].args.stream = thr[t].stream
    /\ last.calls[k].args.to = thr[t].loc.to.addr
    /\ last.calls[k].args.tolen = thr[t].loc.to.len
    /\ thr[t].ret = IF last.calls[k].res = "ok" THEN Ok(Len(thr[t].msg))
                    ELSE OsErr(last.calls[k].res)

\* The OS has received one whole message of each thread that has sent, in
\* some order, and nothing else.
WholeMessages ==
    \E f \in [1..Len(last.calls) -> Threads] :
        /\ \A j, k \in 1..Len(last.calls) : f[j] = f[k] => j = k
        /\ {f[k] : k \in 1..Len(last.calls)} = Sent
        /\ \A k \in 1..Len(last.calls) : CallOf(k, f[k])

\* A step of one thread leaves the other threads' calls, and the handles,
\* as they are.
NothingShared ==
    \E t \in Threads :
        /\ \A u \in Threads \ {t} : thr'[u] = thr[u]
        /\ inst' = inst /\ fdtab' = fdtab /\ ksock' = ksock /\ nclose' = nclose

\* C17: of two threads that call sendmsg at the same time on one socket,
\* through one handle or through a handle and its clone, each issues one
\* OS send call, with its whole payload and its own stream id: in every
\* interleaving the OS receives the two whole messages, in one order or the
\* other, and a step of one thread changes nothing of the other's call.
C17_ConcurrentSendmsgAtomic ==
    /\ []WholeMessages
    /\ [][NothingShared]_vars

\* C17 witness: both threads have sent, through the handle and through its
\* clone, on different streams, and the OS received the message of the
\* second thread first.
C17_Witness ==
    /\ Sent = Threads
    /\ thr[1].h # thr[2].h
    /\ thr[1].stream # thr[2].stream
    /\ thr[1].ret.ok /\ thr[2].ret.ok
    /\ Len(last.calls) = 2
    /\ last.calls[1].args.msg = thr[2].msg
    /\ last.calls[2].args.msg = thr[1].msg

\* The OS calls a constructor is to make, in their order.
StepsOf(op) ==
    CASE op \in {"Listener::bind", "Endpoint::bind"} -> <<"socket", "bind", "listen">>
      [] op \in {"Listener::bindx", "Endpoint::bindx"} -> <<"socket", "sctp_bindx", "listen">>
      [] op = "Stream::connect" -> <<"socket", "connect">>
      [] op = "Stream::connectx" -> <<"socket", "sctp_connectx">>

FacadeOf(op) ==
    CASE op \in {"Listener::bind", "Listener::bindx"} -> "Listener"
      [] op \in {"Endpoint::bind", "Endpoint::bindx"} -> "Endpoint"
      [] op \in {"Stream::connect", "Stream::connectx"} -> "Stream"

\* Call k of the last operation has succeeded, as a step of a constructor.
StepDone(k) ==
    \/ last.calls[k].res = "ok"
    \/ last.calls[k].call = "connect" /\ last.calls[k].res = EINPROGRESS

\* C18: a facade constructor issues its steps in the order of the socket
\* state machine, socket, then bind or bindx with AddAddr, then listen with
\* backlog -1 for a Listener or an Endpoint, socket then connect or connectx
\* for a Stream, which never binds or listens; a step is issued only when
\* the steps before it have succeeded, after a failed step only close
\* follows, and the facade is returned exactly when every step has
\* succeeded, on a socket that is then listening (connected, or connecting).
C18_ConstructionOrder ==
    last.op \in CtorOps =>
        LET calls == last.calls
            steps == SelectSeq(calls, LAMBDA c : c.call # "close")
            want == StepsOf(last.op)
        IN  /\ Len(steps) <= Len(want)
            /\ \A k \in 1..Len(steps) :
                  /\ calls[k] = steps[k]
                  /\ steps[k].call = want[k]
                  /\ k > 1 => steps[k].fd = steps[1].fd /\ steps[k].open
                  /\ steps[k].call = "listen" => steps[k].args.backlog = 0 - 1
                  /\ steps[k].call = "sctp_bindx" => steps[k].args.flags = "AddAddr"
            /\ \A k \in 1..Len(calls) : ~StepDone(k) => \A j \in (k + 1)..Len(calls) : calls[j].call = "close"
            /\ last.ret.ok <=> (Len(steps) = Len(want) /\ \A k \in 1..Len(steps) : StepDone(k))
            /\ last.ret.ok =>
                  /\ inst[last.ret.val].facade = FacadeOf(last.op)
                  /\ inst[last.ret.val].fd = steps[1].fd
                  /\ ksock[fdtab[steps[1].fd]] =
                        IF FacadeOf(last.op) # "Stream" THEN "listening"
                        ELSE IF steps[2].res = EINPROGRESS THEN "connecting" ELSE "connected"

\* C18 witness: SctpListener::bindx has returned a listener after socket,
\* sctp_bindx and listen, and its socket is listening.
C18_Witness ==
    /\ last.op = "Listener::bindx"
    /\ last.ret.ok
    /\ [k \in 1..Len(last.calls) |-> last.calls[k].call] = <<"socket", "sctp_bindx", "listen">>
    /\ ksock[fdtab[inst[last.ret.val].fd]] = "listening"

\* The destination the OS send call of the last operation was handed.
SentTo == [addr |-> last.calls[1].args.to, len |-> last.calls[1].args.tolen]
OneSendCall == Len(last.calls) = 1 /\ last.calls[1].call = "sctp_sendmsg"
\* The encoding of address sa, and the length of its family.
EncodingOf(sa) ==
    [addr |-> Rec(sa), len |-> IF family(sa) = AF_INET THEN SizeofSockaddrIn ELSE SizeofSockaddrIn6]
Resolves(a) == a.err = "none" /\ a.addrs # <<>>

ListHandedOver ==
    /\ last.op \in {"bindx", "connectx"} \cup MultiCtorOps
    /\ CallsNamed("sctp_bindx") \cup CallsNamed("sctp_connectx") # {}

\* The addresses of the list, resolved.
ListAddrs == [k \in 1..Len(last.args.addresses) |-> last.args.addresses[k].addrs[1]]
ListFamily == IF \E k \in 1..Len(ListAddrs) : family(ListAddrs[k]) = AF_INET6 THEN AF_INET6 ELSE AF_INET
LenOf(sa) == IF family(sa) = AF_INET THEN SizeofSockaddrIn ELSE SizeofSockaddrIn6
RECURSIVE SumLen(_, _)
SumLen(as, n) == IF n = 0 THEN 0 ELSE SumLen(as, n - 1) + LenOf(as[n])

\* C20: the buffer of bindx and connectx is count * slot_size bytes, and
\* every address of the list lies in a slot of that one size, the size of
\* an IPv6 address when the family of the list is IPv6, IPv4 addresses of a
\* mixed list included: address i (from 0) starts at byte i * slot_size.
C20_FixedSlots ==
    ListHandedOver =>
        LET n == Len(ListAddrs)
            slot == IF ListFamily = AF_INET6 THEN SizeofSockaddrIn6 ELSE SizeofSockaddrIn
        IN  /\ last.buf.size = n * slot
            /\ Len(last.buf.copies) = n
            /\ \A k \in 1..n : last.buf.copies[k].off = (k - 1) * slot

\* C20 as amended: the buffer is count * sizeof(sockaddr_in6) bytes in
\* bindx and count * sizeof(sockaddr_storage) bytes in connectx, and the
\* addresses lie in it packed, in the order of the list, each as the
\* encoding of its own family with the length of that family: an address
\* starts where the one before it ends, the first at byte 0, and the last
\* ends within the buffer.
C20_PackedLayout ==
    ListHandedOver =>
        LET n == Len(ListAddrs)
            unit == IF CallsNamed("sctp_bindx") # {} THEN SizeofSockaddrIn6 ELSE SizeofSockaddrStorage
        IN  /\ last.buf.size = n * unit
            /\ Len(last.buf.copies) = n
            /\ \A k \in 1..n :
                  /\ last.buf.copies[k].off = SumLen(ListAddrs, k - 1)
                  /\ last.buf.copies[k].len = LenOf(ListAddrs[k])
                  /\ last.buf.copies[k].bytes = Rec(ListAddrs[k])
            /\ SumLen(ListAddrs, n) <= last.buf.size

\* C20 witness: bindx of the list 127.0.0.1:3868, [::1]:3868 has handed
\* the OS a buffer of 56 bytes with the IPv6 address at byte 16.
C20_Witness ==
    /\ last.op = "bindx"
    /\ ListHandedOver
    /\ last.args.addresses = <<ArgV4, ArgV6>>
    /\ last.buf.size = 2 * SizeofSockaddrIn6
    /\ last.buf.copies[2].off = SizeofSockaddrIn
    /\ last.buf.copies[2].len = SizeofSockaddrIn6

\* The last operation has allocated the buffer of a multi-address call.
BufferAllocated ==
    /\ last.op \in {"bindx", "connectx"} \cup MultiCtorOps
    /\ last.buf.allocs = 1

\* The size the buffer of the last operation is to have.
AllocatedSize ==
    Len(last.args.addresses) *
        (IF last.op \in {"bindx", "Endpoint::bindx", "Listener::bindx"} THEN SizeofSockaddrIn6
         ELSE SizeofSockaddrStorage)

\* C21: every copy bindx and connectx make into the buffer they allocated
\* starts at an offset >= 0 and ends within the allocated size, which is
\* count * sizeof(sockaddr_in6) for bindx and count * sizeof(sockaddr_storage)
\* for connectx, no two copies overlap, and the OS call is handed as its
\* count the number of addresses copied.
C21_NoWriteOutsideBuffer ==
    BufferAllocated =>
        LET copies == last.buf.copies
            xs == CallsNamed("sctp_bindx") \cup CallsNamed("sctp_connectx")
        IN  /\ last.buf.size = AllocatedSize
            /\ Len(copies) <= Len(last.args.addresses)
            /\ \A k \in 1..Len(copies) :
                  /\ copies[k].off >= 0
                  /\ copies[k].len = Len(copies[k].bytes)
                  /\ copies[k].off + copies[k].len <= last.buf.size
                  /\ \A j \in 1..(k - 1) : copies[j].off + copies[j].len <= copies[k].off
            /\ \A x \in xs :
                  /\ last.calls[x].args.count = Len(copies)
                  /\ last.calls[x].args.copies = copies
                  /\ Len(copies) = Len(last.args.addresses)

\* C21 witness: bindx of two IPv6 addresses has filled its buffer to the
\* last byte and handed the OS the count 2.
C21_Witness ==
    /\ last.op = "bindx"
    /\ last.args.addresses = <<ArgV6, ArgV6>>
    /\ Len(last.buf.copies) = 2
    /\ last.buf.copies[2].off + last.buf.copies[2].len = last.buf.size
    /\ CallsNamed("sctp_bindx") = {1}
    /\ last.calls[1].args.count = 2

\* C22: accept and recvmsg report an error only when their OS call failed:
\* after an OS accept that succeeded, accept returns the new handle, live
\* and not closed, on the descriptor the OS returned; after an OS receive
\* that succeeded, recvmsg returns the byte count and the stream id of the
\* message the OS delivered; neither is lost to a peer address that does
\* not decode.
C22_ErrorOnlyWhenOsCallFailed ==
    /\ last.op = "accept" /\ last.calls[1].res = "ok" =>
          /\ last.ret.ok
          /\ CallsNamed("close") = {}
          /\ inst[last.ret.val[1]].st = "live"
          /\ inst[last.ret.val[1]].origin = "accept"
          /\ FdOpen(CurW, inst[last.ret.val[1]].fd)
          /\ nclose[last.ret.val[1]] = 0
    /\ last.op = "recvmsg" /\ last.calls[1].res = "ok" =>
          /\ last.ret.ok
          /\ last.ret.val[1] = Len(last.calls[1].args.out.data)
          /\ last.ret.val[2] = last.calls[1].args.out.stream

===========================================================================
